---- MODULE Spec2Model ----
(***************************************************************************)
(* Verification model of the benchmark evaluation pipeline:                *)
(*   BenchmarkEvaluator.evaluate_results   (evaluators/benchmark_evaluator)*)
(*   BenchmarkWorker.process_benchmark     (workers/benchmark_worker)      *)
(*   BenchmarkService status updates       (services/benchmark_service)    *)
(*   BenchmarkAnalytics / DataDeductionEngine (analytics/)                 *)
(*                                                                         *)
(* Numbers.  Metric values that the code rounds with round(x, 2) are kept  *)
(* as integers counting hundredths (70.0 is 7000).  Latencies are Python   *)
(* floats: their sum is modelled in IEEE-754 binary64, a significand of    *)
(* SignificandBits bits, with round-to-nearest-even after every addition   *)
(* and division.                                                           *)
(***************************************************************************)
EXTENDS Integers, Sequences, FiniteSets, TLC

None == -1            \* an absent key / absent value of a numeric field

Max(S) == CHOOSE x \in S : \A y \in S : y <= x
Min2(a, b) == IF a <= b THEN a ELSE b
Abs(x) == IF x < 0 THEN -x ELSE x

(***************************************************************************)
(* Binary64 arithmetic on the non-negative floats the evaluator adds up.   *)
(* A natural number is a sequence of limbs in base LimbBase, least         *)
(* significant limb first, without zero limbs at the top (0 is <<>>).      *)
(* A float is [m, e] with value m * 2^e, m of exactly SignificandBits      *)
(* bits; 0.0 is FloatZero.                                                 *)
(***************************************************************************)
SignificandBits == 53
LimbBits == 15
LimbBase == 32768

Pow2(k) == <<1, 2, 4, 8, 16, 32, 64, 128, 256, 512, 1024, 2048, 4096, 8192,
             16384, 32768>>[k + 1]

\* number of bits of a limb
LimbLen(x) == IF x = 0 THEN 0 ELSE CHOOSE k \in 1..LimbBits : Pow2(k - 1) <= x /\ x < Pow2(k)

BigStrip(s) ==
  LET nz == {i \in 1..Len(s) : s[i] # 0}
  IN  IF nz = {} THEN <<>> ELSE SubSeq(s, 1, Max(nz))

BigOfInt(n) ==
  BigStrip(<<n % LimbBase, (n \div LimbBase) % LimbBase, n \div (LimbBase * LimbBase)>>)

RECURSIVE BigToInt(_)
BigToInt(s) == IF s = <<>> THEN 0 ELSE Head(s) + LimbBase * BigToInt(Tail(s))

BigLen(s) == IF s = <<>> THEN 0 ELSE LimbBits * (Len(s) - 1) + LimbLen(s[Len(s)])

BigOdd(s) == s # <<>> /\ Head(s) % 2 = 1

RECURSIVE BigAddC(_, _, _)
BigAddC(a, b, c) ==
  IF a = <<>> /\ b = <<>> THEN (IF c = 0 THEN <<>> ELSE <<c>>)
  ELSE LET x == IF a = <<>> THEN 0 ELSE Head(a)
           y == IF b = <<>> THEN 0 ELSE Head(b)
           s == x + y + c
       IN  <<s % LimbBase>> \o BigAddC(IF a = <<>> THEN <<>> ELSE Tail(a),
                                       IF b = <<>> THEN <<>> ELSE Tail(b),
                                       s \div LimbBase)

BigAdd(a, b) == BigAddC(a, b, 0)

\* a * k for 0 < k <= LimbBase
RECURSIVE BigMulC(_, _, _)
BigMulC(a, k, c) ==
  IF a = <<>> THEN (IF c = 0 THEN <<>> ELSE <<c>>)
  ELSE LET s == Head(a) * k + c
       IN  <<s % LimbBase>> \o BigMulC(Tail(a), k, s \div LimbBase)

BigMul(a, k) == BigMulC(a, k, 0)

\* quotient and remainder of a by n, 0 < n <= LimbBase
RECURSIVE BigDivModRaw(_, _)
BigDivModRaw(a, n) ==
  IF a = <<>> THEN [q |-> <<>>, r |-> 0]
  ELSE LET hi  == BigDivModRaw(Tail(a), n)
           cur == hi.r * LimbBase + Head(a)
       IN  [q |-> <<cur \div n>> \o hi.q, r |-> cur % n]

BigDivMod(a, n) ==
  LET d == BigDivModRaw(a, n) IN [q |-> BigStrip(d.q), r |-> d.r]

\* a * 2^k
BigShl(a, k) ==
  IF a = <<>> THEN <<>>
  ELSE [i \in 1..(k \div LimbBits) |-> 0] \o BigMul(a, Pow2(k % LimbBits))

\* a \div 2^k, and whether a nonzero remainder was dropped
BigShr(a, k) ==
  LET n    == Min2(k \div LimbBits, Len(a))
      low  == \E i \in 1..n : a[i] # 0
      rest == SubSeq(a, n + 1, Len(a))
      d    == BigDivMod(rest, Pow2(k % LimbBits))
  IN  [q |-> d.q, sticky |-> low \/ d.r # 0]

FloatZero == [m |-> <<>>, e |-> 0]

\* q2 * 2^e, q2 of SignificandBits bits or, after a carry, one more
FloatCarried(q2, e) ==
  IF BigLen(q2) > SignificandBits
  THEN [m |-> BigShr(q2, 1).q, e |-> e + 1]
  ELSE [m |-> q2, e |-> e]

\* h.q * 2^(e - 1), h.q of SignificandBits + 1 bits, rounded to
\* SignificandBits bits, ties to even; h.sticky says that bits below h.q
\* were dropped
FloatRounded(h, e) ==
  FloatCarried(IF BigOdd(h.q) /\ (h.sticky \/ BigOdd(BigShr(h.q, 1).q))
               THEN BigAdd(BigShr(h.q, 1).q, <<1>>)
               ELSE BigShr(h.q, 1).q,
               e)

\* the float nearest to s * 2^e, ties to even
FloatOf(s, e) ==
  IF s = <<>> THEN FloatZero
  ELSE LET L == BigLen(s) IN
       IF L <= SignificandBits
       THEN [m |-> BigShl(s, SignificandBits - L), e |-> e - (SignificandBits - L)]
       ELSE FloatRounded(BigShr(s, L - SignificandBits - 1), e + L - SignificandBits)

\* x + y as the float addition computes it
FloatAdd(x, y) ==
  IF x.m = <<>> THEN y
  ELSE IF y.m = <<>> THEN x
  ELSE LET e == Min2(x.e, y.e)
       IN  FloatOf(BigAdd(BigShl(x.m, x.e - e), BigShl(y.m, y.e - e)), e)

\* x / n as the float division computes it, n a positive integer below 128
FloatDivInt(x, n) ==
  IF x.m = <<>> THEN FloatZero
  ELSE LET d == BigDivMod(BigShl(x.m, 10), n)
       IN  FloatOf(BigAdd(BigShl(d.q, 1), IF d.r # 0 THEN <<1>> ELSE <<>>), x.e - 11)

IntToFloat(n) == FloatOf(BigOfInt(n), 0)

\* the float a decimal with two places denotes: float("0.10") for h = 10
DecToFloat(h) == FloatDivInt(IntToFloat(h), 100)

\* round(x, 2) of a float, in hundredths: the integer nearest to 100 * x,
\* ties (on the exact binary value) to even
Round2Float(x) ==
  IF x.m = <<>> THEN 0
  ELSE LET t == BigMul(x.m, 100)
       IN  IF x.e >= 0 THEN BigToInt(BigShl(t, x.e))
           ELSE LET h  == BigShr(t, -x.e - 1)
                    q  == BigShr(h.q, 1).q
                    up == BigOdd(h.q) /\ (h.sticky \/ BigOdd(q))
                IN  BigToInt(q) + (IF up THEN 1 ELSE 0)

\* round(num / den, 2) for integer operands already scaled to hundredths:
\* the integer nearest to num / den, ties to even
RoundDiv(num, den) ==
  LET q == num \div den
      r == num % den
  IN  IF 2 * r > den \/ (2 * r = den /\ q % 2 = 1) THEN q + 1 ELSE q

(***************************************************************************)
(* Dictionaries that keep insertion order (Python dict, defaultdict).      *)
(***************************************************************************)
EmptyDict == [keys |-> <<>>, val |-> [k \in {} |-> 0]]

DictSet(d, k, v) ==
  IF k \in DOMAIN d.val
  THEN [d EXCEPT !.val[k] = v]
  ELSE [keys |-> Append(d.keys, k), val |-> d.val @@ (k :> v)]

SeqsUpTo(S, n) == UNION {[1..k -> S] : k \in 0..n}

\* the elements of a finite set as a list, once each
RECURSIVE SetToSeq(_)
SetToSeq(S) ==
  IF S = {} THEN <<>>
  ELSE LET x == CHOOSE x \in S : TRUE IN <<x>> \o SetToSeq(S \ {x})

(***************************************************************************)
(* BenchmarkEvaluator.evaluate_results                                     *)
(*                                                                         *)
(* An agent response is [agent, error, correct, response]: error says      *)
(* whether the record has an "error" key, response is the payload          *)
(* [is_dict, has_error, latency, tokens] with latency in hundredths of a   *)
(* second and tokens = usage.total_tokens, None when the key is absent.    *)
(***************************************************************************)
\* agent_response.get("response", {}) of a record without "response"
NoPayload == [is_dict |-> TRUE, has_error |-> FALSE, latency |-> None, tokens |-> None]

\* the dict an adapter returns for a failed call: {"error": ...}
ErrorPayload == [is_dict |-> TRUE, has_error |-> TRUE, latency |-> None, tokens |-> None]

Payload(lat, tok) == [is_dict |-> TRUE, has_error |-> FALSE, latency |-> lat, tokens |-> tok]

InitStats ==
  [total_questions |-> 0, correct_answers |-> 0, total_latency |-> FloatZero,
   total_tokens |-> 0, errors |-> 0]

\* Accumulate without the else: an errored response is also scored
Accumulate_ErrorScored(stats, r) ==
  LET s1 == [stats EXCEPT !.total_questions = @ + 1,
                          !.errors = IF r.error THEN @ + 1 ELSE @]
      s2 == IF r.correct THEN [s1 EXCEPT !.correct_answers = @ + 1] ELSE s1
      p  == r.response
  IN  IF p.is_dict
      THEN [s2 EXCEPT
              !.total_latency = IF p.latency # None
                                THEN FloatAdd(@, DecToFloat(p.latency)) ELSE @,
              !.total_tokens  = IF p.tokens # None THEN @ + p.tokens ELSE @]
      ELSE s2

\* Accumulate with total_tokens assigned instead of added to
Accumulate_LastTokens(stats, r) ==
  LET s1 == [stats EXCEPT !.total_questions = @ + 1]
  IN  IF r.error
      THEN [s1 EXCEPT !.errors = @ + 1]
      ELSE LET s2 == IF r.correct THEN [s1 EXCEPT !.correct_answers = @ + 1] ELSE s1
               p  == r.response
           IN  IF p.is_dict
               THEN [s2 EXCEPT
                       !.total_latency = IF p.latency # None
                                         THEN FloatAdd(@, DecToFloat(p.latency)) ELSE @,
                       !.total_tokens  = IF p.tokens # None THEN p.tokens ELSE @]
               ELSE s2

\* the body of the inner loop, for the stats record of the response's agent
Accumulate(stats, r) ==
  LET s1 == [stats EXCEPT !.total_questions = @ + 1]
  IN  IF r.error
      THEN [s1 EXCEPT !.errors = @ + 1]
      ELSE LET s2 == IF r.correct THEN [s1 EXCEPT !.correct_answers = @ + 1] ELSE s1
               p  == r.response
           IN  IF p.is_dict
               THEN [s2 EXCEPT
                       !.total_latency = IF p.latency # None
                                         THEN FloatAdd(@, DecToFloat(p.latency)) ELSE @,
                       !.total_tokens  = IF p.tokens # None THEN @ + p.tokens ELSE @]
               ELSE s2

\* agent_stats[agent_name] of the defaultdict, updated for one response
AccumulateInto(d, r) ==
  DictSet(d, r.agent,
          Accumulate(IF r.agent \in DOMAIN d.val THEN d.val[r.agent] ELSE InitStats, r))

\* FinalMetrics truncating instead of rounding
FinalMetrics_Floor(stats) ==
  LET n == stats.total_questions
  IN  [accuracy    |-> IF n > 0 THEN (stats.correct_answers * 10000) \div n ELSE 0,
       latency_avg |-> IF n > 0 THEN Round2Float(FloatDivInt(stats.total_latency, n)) ELSE 0,
       tokens_avg  |-> IF n > 0 THEN (stats.total_tokens * 100) \div n ELSE 0,
       error_rate  |-> IF n > 0 THEN (stats.errors * 10000) \div n ELSE 0,
       consistency |-> IF n > 0 THEN ((n - stats.errors) * 10000) \div n ELSE 10000]

\* FinalMetrics with the error rate taken over the answered questions only
FinalMetrics_ErrorPerAnswer(stats) ==
  LET n == stats.total_questions
      k == stats.total_questions - stats.errors
  IN  [accuracy    |-> IF n > 0 THEN RoundDiv(stats.correct_answers * 10000, n) ELSE 0,
       latency_avg |-> IF n > 0 THEN Round2Float(FloatDivInt(stats.total_latency, n)) ELSE 0,
       tokens_avg  |-> IF n > 0 THEN RoundDiv(stats.total_tokens * 100, n) ELSE 0,
       error_rate  |-> IF k > 0 THEN RoundDiv(stats.errors * 10000, k) ELSE 0,
       consistency |-> IF n > 0 THEN RoundDiv((n - stats.errors) * 10000, n) ELSE 10000]

\* the metrics of one agent, in hundredths: round(x, 2) of each ratio.
\* RoundDiv agrees with the float computation for fewer than 40 responses.
FinalMetrics(stats) ==
  LET n == stats.total_questions
  IN  [accuracy    |-> IF n > 0 THEN RoundDiv(stats.correct_answers * 10000, n) ELSE 0,
       latency_avg |-> IF n > 0 THEN Round2Float(FloatDivInt(stats.total_latency, n)) ELSE 0,
       tokens_avg  |-> IF n > 0 THEN RoundDiv(stats.total_tokens * 100, n) ELSE 0,
       error_rate  |-> IF n > 0 THEN RoundDiv(stats.errors * 10000, n) ELSE 0,
       consistency |-> IF n > 0 THEN RoundDiv((n - stats.errors) * 10000, n) ELSE 10000]

\* the second loop: one entry per key of agent_stats
FinalResults(d) ==
  [keys |-> d.keys,
   val  |-> [a \in DOMAIN d.val |-> [metrics |-> FinalMetrics(d.val[a]), raw_stats |-> d.val[a]]]]

\* all responses of a result list, in processing order
RECURSIVE Flatten(_)
Flatten(rs) ==
  IF rs = <<>> THEN <<>> ELSE Head(rs).agent_responses \o Flatten(Tail(rs))

RECURSIVE AccumulateAll(_, _)
AccumulateAll(d, resps) ==
  IF resps = <<>> THEN d ELSE AccumulateAll(AccumulateInto(d, Head(resps)), Tail(resps))

evaluate_results(rs) ==
  IF rs = <<>> THEN EmptyDict ELSE FinalResults(AccumulateAll(EmptyDict, Flatten(rs)))

(***************************************************************************)
(* Exact arithmetic for the statistics: products and comparisons of        *)
(* natural numbers too large for a machine integer.                        *)
(***************************************************************************)
Range(f) == {f[x] : x \in DOMAIN f}

RECURSIVE SumSeq(_)
SumSeq(q) == IF q = <<>> THEN 0 ELSE Head(q) + SumSeq(Tail(q))

\* x * y for naturals below 2^30
BigProduct(x, y) ==
  LET a == BigOfInt(x)
  IN  IF a = <<>> \/ y = 0 THEN <<>>
      ELSE BigAdd(IF y % LimbBase = 0 THEN <<>> ELSE BigMul(a, y % LimbBase),
                  IF y \div LimbBase = 0 THEN <<>>
                  ELSE BigShl(BigMul(a, y \div LimbBase), LimbBits))

BigLess(a, b) ==
  \/ Len(a) < Len(b)
  \/ /\ Len(a) = Len(b)
     /\ \E i \in 1..Len(a) :
          /\ a[i] < b[i]
          /\ \A j \in (i + 1)..Len(a) : a[j] = b[j]

RECURSIVE BigSum(_)
BigSum(q) == IF q = <<>> THEN <<>> ELSE BigAdd(Head(q), BigSum(Tail(q)))

\* n * sum(x^2) - sum(x)^2 = the sum over the pairs i < j of (x_i - x_j)^2:
\* n^2 times the population variance of the values
VarianceTimesN2(vals) ==
  LET n == Len(vals)
      pairs == {p \in (1..n) \X (1..n) : p[1] < p[2]}
      sq(p) == BigProduct(Abs(vals[p[1]] - vals[p[2]]), Abs(vals[p[1]] - vals[p[2]]))
      RECURSIVE SumOver(_)
      SumOver(P) == IF P = {} THEN <<>>
                    ELSE LET p == CHOOSE p \in P : TRUE
                         IN  BigAdd(sq(p), SumOver(P \ {p}))
  IN  SumOver(pairs)

\* a quotient num / den kept exact; 0 is Frac(0, 1)
Frac(num, den) == IF num = 0 THEN [num |-> 0, den |-> 1] ELSE [num |-> num, den |-> den]

EmptyMap == [k \in {} |-> 0]

\* d.get(k, 0)
Get(m, k) == IF k \in DOMAIN m THEN m[k] ELSE 0

(***************************************************************************)
(* BenchmarkAnalytics.  An agent of the input is                           *)
(*   [id, has_metrics, metrics, category_scores]                           *)
(* metrics maps some of the metric names to hundredths; has_metrics says   *)
(* whether the agent has a "metrics" key at all; category_scores maps      *)
(* category names to ten-thousandths.  A function that can raise returns   *)
(* [exc, value], exc = "none" when it returns normally.                    *)
(***************************************************************************)
\* agent.get("metrics", {})
MetricsOf(agent) == IF agent.has_metrics THEN agent.metrics ELSE EmptyMap

Returned(v) == [exc |-> "none", value |-> v]
Raised(e) == [exc |-> e, value |-> EmptyMap]

_rate_accuracy(accuracy) ==
  IF accuracy >= 9000 THEN "Excellent"
  ELSE IF accuracy >= 8000 THEN "Good"
  ELSE IF accuracy >= 7000 THEN "Fair"
  ELSE "Poor"

\* _rate_latency with < for <= in the first bucket
_rate_latency_Strict(latency) ==
  IF latency < 100 THEN "Excellent"
  ELSE IF latency <= 300 THEN "Good"
  ELSE IF latency <= 500 THEN "Fair"
  ELSE "Poor"

_rate_latency(latency) ==
  IF latency <= 100 THEN "Excellent"
  ELSE IF latency <= 300 THEN "Good"
  ELSE IF latency <= 500 THEN "Fair"
  ELSE "Poor"

_calculate_tokens_per_second(tokens, latency) ==
  IF latency <= 0 THEN Frac(0, 1)
  ELSE IF tokens > 0 THEN Frac(tokens, latency) ELSE Frac(0, 1)

\* (accuracy / 100) / (tokens / 1000)
_calculate_cost_efficiency(accuracy, tokens) ==
  IF tokens <= 0 THEN Frac(0, 1) ELSE Frac(10 * accuracy, tokens)

PerformanceOf(agent) ==
  LET metrics == MetricsOf(agent)
  IN  [accuracy_analysis |->
         [value |-> Get(metrics, "accuracy"),
          rating |-> _rate_accuracy(Get(metrics, "accuracy"))],
       latency_analysis |->
         [value |-> Get(metrics, "latency_avg"),
          rating |-> _rate_latency(Get(metrics, "latency_avg"))],
       efficiency_analysis |->
         [tokens_per_second |->
            _calculate_tokens_per_second(Get(metrics, "tokens_avg"),
                                         Get(metrics, "latency_avg")),
          cost_efficiency |->
            _calculate_cost_efficiency(Get(metrics, "accuracy"),
                                       Get(metrics, "tokens_avg"))]]

\* {key: value for ...}: the dict of the keys and their values, a later
\* value replacing an earlier one of the same key
RECURSIVE DictZip(_, _, _)
DictZip(ks, vs, d) ==
  IF ks = <<>> THEN d
  ELSE DictZip(Tail(ks), Tail(vs), DictSet(d, Head(ks), Head(vs)))

\* [agent["id"] for agent in agents]
Ids(agents) == [i \in 1..Len(agents) |-> agents[i].id]

\* {agent["id"]: agent["metrics"].get(k, 0) for agent in agents}
Scores(agents, k) ==
  DictZip(Ids(agents), [i \in 1..Len(agents) |-> Get(agents[i].metrics, k)], EmptyDict)

_analyze_performance_metrics(agents) ==
  DictZip(Ids(agents), [i \in 1..Len(agents) |-> PerformanceOf(agents[i])], EmptyDict)

\* max(d, key=d.get) returning the last of the keys that have the greatest
\* value
MaxKey_Last(d) ==
  LET i == CHOOSE i \in 1..Len(d.keys) :
             /\ \A j \in 1..Len(d.keys) : d.val[d.keys[j]] <= d.val[d.keys[i]]
             /\ \A j \in (i + 1)..Len(d.keys) : d.val[d.keys[j]] < d.val[d.keys[i]]
  IN  d.keys[i]

\* max(d, key=d.get): the first key, in the order of the dict, that has the
\* greatest value
MaxKey(d) ==
  LET i == CHOOSE i \in 1..Len(d.keys) :
             /\ \A j \in 1..Len(d.keys) : d.val[d.keys[j]] <= d.val[d.keys[i]]
             /\ \A j \in 1..(i - 1) : d.val[d.keys[j]] < d.val[d.keys[i]]
  IN  d.keys[i]

\* min over the keys that have a positive value (the first key when none
\* has): the first of them that has the least
MinKey_Positive(d) ==
  LET pos == {i \in 1..Len(d.keys) : d.val[d.keys[i]] > 0}
      among == IF pos = {} THEN {1} ELSE pos
      i == CHOOSE i \in among :
             /\ \A j \in among : d.val[d.keys[j]] >= d.val[d.keys[i]]
             /\ \A j \in among : j < i => d.val[d.keys[j]] > d.val[d.keys[i]]
  IN  d.keys[i]

\* min(d, key=d.get): the first key that has the least value
MinKey(d) ==
  LET i == CHOOSE i \in 1..Len(d.keys) :
             /\ \A j \in 1..Len(d.keys) : d.val[d.keys[j]] >= d.val[d.keys[i]]
             /\ \A j \in 1..(i - 1) : d.val[d.keys[j]] > d.val[d.keys[i]]
  IN  d.keys[i]

\* composite_score, in thousandths:
\* accuracy * 0.5 + max(0, (10 - latency_avg) * 2) + consistency * 0.3
CompositeScore(metrics) ==
  LET lat == 20 * (1000 - Get(metrics, "latency_avg"))
  IN  5 * Get(metrics, "accuracy") + (IF lat > 0 THEN lat ELSE 0)
        + 3 * Get(metrics, "consistency")

RankEntry(agent) ==
  LET metrics == MetricsOf(agent)
  IN  [agent_id        |-> agent.id,
       composite_score |-> CompositeScore(metrics),
       accuracy        |-> Get(metrics, "accuracy"),
       latency         |-> Get(metrics, "latency_avg"),
       consistency     |-> Get(metrics, "consistency")]

\* a sort, highest first, that puts an entry after the later entries of the
\* same score
RECURSIVE SortByScore_Unstable(_)
SortByScore_Unstable(q) ==
  IF q = <<>> THEN <<>>
  ELSE LET rest == SortByScore_Unstable(Tail(q))
           x    == Head(q)
           k    == Cardinality({i \in 1..Len(rest) :
                                  rest[i].composite_score >= x.composite_score})
       IN  SubSeq(rest, 1, k) \o <<x>> \o SubSeq(rest, k + 1, Len(rest))

\* list.sort(key=composite_score, reverse=True): stable, highest first
RECURSIVE SortByScore(_)
SortByScore(q) ==
  IF q = <<>> THEN <<>>
  ELSE LET rest == SortByScore(Tail(q))
           x    == Head(q)
           k    == Cardinality({i \in 1..Len(rest) :
                                  rest[i].composite_score > x.composite_score})
       IN  SubSeq(rest, 1, k) \o <<x>> \o SubSeq(rest, k + 1, Len(rest))

_rank_agents_by_performance(agents) ==
  SortByScore([i \in 1..Len(agents) |-> RankEntry(agents[i])])

_compare_agents(agents) ==
  IF Len(agents) < 2
  THEN Returned([kind |-> "comparison_not_available"])
  ELSE IF \E i \in 1..Len(agents) : ~agents[i].has_metrics
  THEN Raised("KeyError")       \* agent["metrics"]
  ELSE Returned(
         [kind |-> "comparison",
          best_accuracy  |-> MaxKey(Scores(agents, "accuracy")),
          best_latency   |-> MinKey(Scores(agents, "latency_avg")),
          most_efficient |-> MinKey(Scores(agents, "tokens_avg")),
          performance_ranking |-> _rank_agents_by_performance(agents)])

\* the values an insertion sort leaves in ascending order
RECURSIVE SortAsc(_)
SortAsc(q) ==
  IF q = <<>> THEN <<>>
  ELSE LET rest == SortAsc(Tail(q))
           k    == Cardinality({i \in 1..Len(rest) : rest[i] < Head(q)})
       IN  SubSeq(rest, 1, k) \o <<Head(q)>> \o SubSeq(rest, k + 1, Len(rest))

\* mean, median, std_dev, min and max of a non-empty list of values;
\* std_dev is sqrt(variance_n2) / count
Statistics(vals) ==
  LET n      == Len(vals)
      sorted == SortAsc(vals)
  IN  [mean     |-> Frac(SumSeq(vals), n),
       median   |-> Frac(sorted[(n + 1) \div 2] + sorted[n \div 2 + 1], 2),
       std_dev  |-> [variance_n2 |-> VarianceTimesN2(vals), count |-> n],
       min      |-> sorted[1],
       max      |-> sorted[n]]

_generate_statistical_summary(agents) ==
  LET names == UNION {DOMAIN MetricsOf(agents[i]) : i \in 1..Len(agents)}
      collected(k) ==
        LET having == SelectSeq(agents, LAMBDA a : k \in DOMAIN MetricsOf(a))
        IN  [i \in 1..Len(having) |-> MetricsOf(having[i])[k]]
  IN  [k \in names |-> Statistics(collected(k))]

\* InsightsOf with > for >= in the first accuracy rule
InsightsOf_StrictExcellent(agent) ==
  LET metrics  == MetricsOf(agent)
      accuracy == Get(metrics, "accuracy")
      latency  == Get(metrics, "latency_avg")
      tokens   == Get(metrics, "tokens_avg")
      tps      == _calculate_tokens_per_second(tokens, latency)
      say(t)   == <<[agent |-> agent.id, text |-> t]>>
  IN  (IF accuracy > 9000 THEN say("excellent_precision")
       ELSE IF accuracy >= 8000 THEN say("good_precision")
       ELSE IF accuracy < 7000 THEN say("precision_needs_improvement")
       ELSE <<>>)
      \o
      (IF latency <= 200 THEN say("excellent_response_time")
       ELSE IF latency > 500 THEN say("high_latency")
       ELSE <<>>)
      \o
      (IF tps.num > 500 * tps.den THEN say("very_efficient")
       ELSE IF tps.num < 100 * tps.den THEN say("could_be_more_efficient")
       ELSE <<>>)

InsightsOf(agent) ==
  LET metrics  == MetricsOf(agent)
      accuracy == Get(metrics, "accuracy")
      latency  == Get(metrics, "latency_avg")
      tokens   == Get(metrics, "tokens_avg")
      tps      == _calculate_tokens_per_second(tokens, latency)
      say(t)   == <<[agent |-> agent.id, text |-> t]>>
  IN  (IF accuracy >= 9000 THEN say("excellent_precision")
       ELSE IF accuracy >= 8000 THEN say("good_precision")
       ELSE IF accuracy < 7000 THEN say("precision_needs_improvement")
       ELSE <<>>)
      \o
      (IF latency <= 200 THEN say("excellent_response_time")
       ELSE IF latency > 500 THEN say("high_latency")
       ELSE <<>>)
      \o
      (IF tps.num > 500 * tps.den THEN say("very_efficient")
       ELSE IF tps.num < 100 * tps.den THEN say("could_be_more_efficient")
       ELSE <<>>)

\* _generate_insights putting the insights of an agent before those of the
\* agents ahead of it
RECURSIVE _generate_insights_Reversed(_)
_generate_insights_Reversed(agents) ==
  IF agents = <<>> THEN <<>>
  ELSE _generate_insights_Reversed(Tail(agents)) \o InsightsOf(Head(agents))

RECURSIVE _generate_insights(_)
_generate_insights(agents) ==
  IF agents = <<>> THEN <<>> ELSE InsightsOf(Head(agents)) \o _generate_insights(Tail(agents))

\* analyze_benchmark_results without self.metrics_history.append(analysis)
analyze_benchmark_results_NotStored(benchmark_results, timestamp) ==
  IF ~benchmark_results.has_agents
  THEN [exc |-> "none", value |-> EmptyMap, appended |-> FALSE]
  ELSE LET agents == benchmark_results.agents
           cmp    == _compare_agents(agents)
       IN  IF cmp.exc # "none"
           THEN [exc |-> cmp.exc, value |-> EmptyMap, appended |-> FALSE]
           ELSE [exc |-> "none",
                 value |->
                   [timestamp            |-> timestamp,
                    benchmark_id         |-> benchmark_results.benchmark,
                    total_agents         |-> Len(agents),
                    performance_metrics  |-> _analyze_performance_metrics(agents),
                    comparative_analysis |-> cmp.value,
                    statistical_summary  |-> _generate_statistical_summary(agents),
                    insights             |-> _generate_insights(agents)],
                 appended |-> FALSE]

\* analyze_benchmark_results: [exc, value, appended]; appended says whether
\* the analysis was stored in self.metrics_history.  An input is
\* [has_agents, benchmark, agents].
analyze_benchmark_results(benchmark_results, timestamp) ==
  IF ~benchmark_results.has_agents
  THEN [exc |-> "none", value |-> EmptyMap, appended |-> FALSE]
  ELSE LET agents == benchmark_results.agents
           cmp    == _compare_agents(agents)
       IN  IF cmp.exc # "none"
           THEN [exc |-> cmp.exc, value |-> EmptyMap, appended |-> FALSE]
           ELSE [exc |-> "none",
                 value |->
                   [timestamp            |-> timestamp,
                    benchmark_id         |-> benchmark_results.benchmark,
                    total_agents         |-> Len(agents),
                    performance_metrics  |-> _analyze_performance_metrics(agents),
                    comparative_analysis |-> cmp.value,
                    statistical_summary  |-> _generate_statistical_summary(agents),
                    insights             |-> _generate_insights(agents)],
                 appended |-> TRUE]

(***************************************************************************)
(* DataDeductionEngine.                                                    *)
(***************************************************************************)
MaxLabelled == 2

\* what the clustering of n agents can come to: an exception of the scaler
\* or of KMeans, or the labels KMeans.fit_predict gives the agents, each one
\* of 0 .. n_clusters - 1 with n_clusters = min(3, n): every labelling of
\* the first MaxLabelled agents, the later agents labelled in turn
ClusteringOutcomes(n) ==
  {[kind |-> "clustering_error", labels |-> <<>>]}
  \cup {[kind |-> "performance_clusters",
         labels |-> [i \in 1..n |->
                       IF i <= MaxLabelled THEN l[i] ELSE (i - 1) % Min2(3, n)]] :
          l \in [1..Min2(n, MaxLabelled) -> 0..(Min2(3, n) - 1)]}

\* the loop with clusters[label] = [agent_names[i]] for the append
RECURSIVE GroupByLabel_Overwrite(_, _, _, _)
GroupByLabel_Overwrite(agent_names, cluster_labels, i, clusters) ==
  IF i > Len(cluster_labels) THEN clusters
  ELSE GroupByLabel_Overwrite(agent_names, cluster_labels, i + 1,
                              DictSet(clusters, cluster_labels[i], <<agent_names[i]>>))

\* the loop over enumerate(cluster_labels) from the i-th label on:
\* clusters[label].append(agent_names[i]), a new label getting a new list
RECURSIVE GroupByLabel(_, _, _, _)
GroupByLabel(agent_names, cluster_labels, i, clusters) ==
  IF i > Len(cluster_labels) THEN clusters
  ELSE GroupByLabel(agent_names, cluster_labels, i + 1,
                    DictSet(clusters, cluster_labels[i],
                            Append(IF cluster_labels[i] \in DOMAIN clusters.val
                                   THEN clusters.val[cluster_labels[i]] ELSE <<>>,
                                   agent_names[i])))

\* _identify_performance_patterns, the cluster centers left out
_identify_performance_patterns(agents, clustering) ==
  IF Len(agents) < 2
  THEN [kind |-> "insufficient_data", n_clusters |-> 0, performance_clusters |-> EmptyDict]
  ELSE IF clustering.kind = "clustering_error"
  THEN [kind |-> "clustering_error", n_clusters |-> 0, performance_clusters |-> EmptyDict]
  ELSE IF Min2(3, Len(agents)) >= 2
  THEN [kind |-> "performance_clusters",
        n_clusters |-> Min2(3, Len(agents)),
        performance_clusters |-> GroupByLabel(Ids(agents), clustering.labels, 1, EmptyDict)]
  ELSE [kind |-> "single_cluster", n_clusters |-> 0, performance_clusters |-> EmptyDict]

\* list(d.values())
Values(d) == [i \in 1..Len(d.keys) |-> d.val[d.keys[i]]]

\* np.std(category_values) < limit, the scores being in ten-thousandths
StdBelow(vals, limit) ==
  BigLess(VarianceTimesN2(vals),
          BigProduct(Len(vals) * Len(vals) * limit * limit, 100000000))

_identify_category_strengths(category_scores) ==
  LET vals == Values(category_scores)
  IN  SelectSeq(category_scores.keys,
                LAMBDA cat : Len(vals) * category_scores.val[cat]
                               > SumSeq(vals) + 50000 * Len(vals))

_identify_category_weaknesses(category_scores) ==
  LET vals == Values(category_scores)
  IN  SelectSeq(category_scores.keys,
                LAMBDA cat : Len(vals) * category_scores.val[cat]
                               < SumSeq(vals) - 50000 * Len(vals))

_profile_performance(metrics) ==
  LET accuracy    == Get(metrics, "accuracy")
      latency     == Get(metrics, "latency_avg")
      consistency == Get(metrics, "consistency")
  IN  IF accuracy >= 8500 /\ latency <= 300 /\ consistency >= 400
      THEN "High Performance"
      ELSE IF accuracy >= 7500 /\ latency <= 500 /\ consistency >= 300
      THEN "Balanced Performance"
      ELSE "Needs Improvement"

BehaviorOf(agent) ==
  LET vals == Values(agent.category_scores)
  IN  [score_consistency |->
         IF StdBelow(vals, 5) THEN "High"
         ELSE IF StdBelow(vals, 10) THEN "Medium" ELSE "Low",
       category_strengths  |-> _identify_category_strengths(agent.category_scores),
       category_weaknesses |-> _identify_category_weaknesses(agent.category_scores),
       overall_performance_profile |-> _profile_performance(MetricsOf(agent))]

_analyze_behavioral_patterns(agents) ==
  LET having == SelectSeq(agents, LAMBDA a : a.category_scores.keys # <<>>)
  IN  DictZip(Ids(having), [i \in 1..Len(having) |-> BehaviorOf(having[i])], EmptyDict)

\* a * b for naturals of any size
RECURSIVE BigTimes(_, _)
BigTimes(a, b) ==
  IF a = <<>> \/ b = <<>> THEN <<>>
  ELSE BigAdd(IF Head(b) = 0 THEN <<>> ELSE BigMul(a, Head(b)),
              BigShl(BigTimes(a, Tail(b)), LimbBits))

\* np.corrcoef(xs, ys)[0, 1] = (pos - neg) / sqrt(var_x * var_y), where
\* pos - neg = n * sum(x * y) - sum(x) * sum(y); nan when a variance is 0
Correlation(xs, ys) ==
  LET n == Len(xs)
      pairs == {p \in (1..n) \X (1..n) : p[1] < p[2]}
      term(p) == (xs[p[1]] - xs[p[2]]) * (ys[p[1]] - ys[p[2]])
      mag(p) == BigProduct(Abs(xs[p[1]] - xs[p[2]]), Abs(ys[p[1]] - ys[p[2]]))
      RECURSIVE SumOver(_)
      SumOver(P) == IF P = {} THEN <<>>
                    ELSE LET p == CHOOSE p \in P : TRUE
                         IN  BigAdd(mag(p), SumOver(P \ {p}))
      sameSign(p) == (xs[p[1]] - xs[p[2]] > 0) = (ys[p[1]] - ys[p[2]] > 0)
      vx == VarianceTimesN2(xs)
      vy == VarianceTimesN2(ys)
  IN  [nan   |-> vx = <<>> \/ vy = <<>>,
       pos   |-> SumOver({p \in pairs : sameSign(p)}),
       neg   |-> SumOver({p \in pairs : ~sameSign(p)}),
       var_x |-> vx,
       var_y |-> vy]

\* abs(corr) > num / 10, false for nan:
\* 100 * (pos - neg)^2 > num^2 * var_x * var_y
CorrelationAbove(c, num) ==
  /\ ~c.nan
  /\ BigLess(BigAdd(BigMul(BigTimes(c.var_x, c.var_y), num * num),
                    BigMul(BigTimes(c.pos, c.neg), 200)),
             BigMul(BigAdd(BigTimes(c.pos, c.pos), BigTimes(c.neg, c.neg)), 100))

Interpret(c) ==
  IF CorrelationAbove(c, 7) THEN "Strong correlation"
  ELSE IF CorrelationAbove(c, 3) THEN "Moderate correlation"
  ELSE "Weak correlation"

\* [metric.get(k, 0) for each agent]
Column(agents, k) == [i \in 1..Len(agents) |-> Get(MetricsOf(agents[i]), k)]

_analyze_metric_correlations(agents) ==
  IF Len(agents) < 3
  THEN [kind |-> "insufficient_data"]
  ELSE LET acc_lat == Correlation(Column(agents, "accuracy"), Column(agents, "latency_avg"))
           acc_tok == Correlation(Column(agents, "accuracy"), Column(agents, "tokens_avg"))
           lat_tok == Correlation(Column(agents, "latency_avg"), Column(agents, "tokens_avg"))
       IN  [kind |-> "correlations",
            accuracy_vs_latency_correlation |-> acc_lat,
            accuracy_vs_tokens_correlation  |-> acc_tok,
            latency_vs_tokens_correlation   |-> lat_tok,
            correlation_interpretation |->
              [acc_lat |-> Interpret(acc_lat),
               acc_tok |-> Interpret(acc_tok),
               lat_tok |-> Interpret(lat_tok)]]

(***************************************************************************)
(* Binary64 arithmetic of np.mean and np.std, which decide the outliers.   *)
(* A difference is [neg, mag]: its sign and the float of its magnitude.    *)
(***************************************************************************)
\* a - b for naturals a >= b
RECURSIVE BigSubC(_, _, _)
BigSubC(a, b, c) ==
  IF a = <<>> THEN <<>>
  ELSE LET y == (IF b = <<>> THEN 0 ELSE Head(b)) + c
           d == Head(a) - y
       IN  <<IF d < 0 THEN d + LimbBase ELSE d>>
             \o BigSubC(Tail(a), IF b = <<>> THEN <<>> ELSE Tail(b),
                        IF d < 0 THEN 1 ELSE 0)

BigSub(a, b) == BigStrip(BigSubC(a, b, 0))

\* the integer square root of 0 < n < LimbBase^2 by Newton's iteration
\* from x, an integer not below the root
RECURSIVE IntSqrt(_, _)
IntSqrt(n, x) ==
  LET y == (x + n \div x) \div 2
  IN  IF y >= x THEN x ELSE IntSqrt(n, y)

\* the greatest limb d <= guess with (2 * root * LimbBase + d) * d <= cur,
\* twice being 2 * root
RECURSIVE RootLimb(_, _, _)
RootLimb(cur, twice, guess) ==
  IF guess > 0 /\ BigLess(cur, BigMul(<<guess>> \o twice, guess))
  THEN RootLimb(cur, twice, guess - 1)
  ELSE guess

\* the integer square root of the 8 limbs n, the top limb at least
\* LimbBase / 4, one limb of the root at a time: root holds the k limbs
\* found and rem what is left of the top 2 * k limbs of n.  The next limb is
\* guessed, never too low, from the top limbs of cur and of the root.
RECURSIVE BigSqrtFrom(_, _, _, _)
BigSqrtFrom(n, k, root, rem) ==
  IF k = 4 THEN [root |-> root, rem |-> rem]
  ELSE LET cur    == BigStrip(<<n[7 - 2 * k], n[8 - 2 * k]>> \o rem)
           top(i) == IF i <= Len(cur) THEN cur[i] ELSE 0
           t      == top(k + 1) + LimbBase * top(k + 2)
                       + LimbBase * LimbBase * top(k + 3)
           twice  == BigMul(root, 2)
           d      == RootLimb(cur, twice,
                              Min2(LimbBase - 1, t \div (2 * root[k])))
       IN  BigSqrtFrom(n, k + 1, <<d>> \o root,
                       IF d = 0 THEN cur
                       ELSE BigSub(cur, BigMul(<<d>> \o twice, d)))

BigSqrt(n) ==
  LET first == IntSqrt(n[8] * LimbBase + n[7], LimbBase)
  IN  BigSqrtFrom(n, 1, <<first>>,
                  BigOfInt(n[8] * LimbBase + n[7] - first * first))

\* x < y for non-negative floats
FloatLess(x, y) ==
  /\ y.m # <<>>
  /\ \/ x.m = <<>>
     \/ x.e < y.e
     \/ x.e = y.e /\ BigLess(x.m, y.m)

\* x - y as the float subtraction computes it
FloatSub(x, y) ==
  IF y.m = <<>> THEN [neg |-> FALSE, mag |-> x]
  ELSE IF x.m = <<>> THEN [neg |-> TRUE, mag |-> y]
  ELSE LET e  == Min2(x.e, y.e)
           a  == BigShl(x.m, x.e - e)
           b  == BigShl(y.m, y.e - e)
       IN  IF BigLess(a, b)
           THEN [neg |-> TRUE, mag |-> FloatOf(BigSub(b, a), e)]
           ELSE [neg |-> FALSE, mag |-> FloatOf(BigSub(a, b), e)]

\* x * y as the float multiplication computes it
FloatMul(x, y) ==
  IF x.m = <<>> \/ y.m = <<>> THEN FloatZero
  ELSE FloatOf(BigTimes(x.m, y.m), x.e + y.e)

\* 2 * x
FloatTwice(x) == IF x.m = <<>> THEN FloatZero ELSE [m |-> x.m, e |-> x.e + 1]

\* sqrt(x), correctly rounded: the root of the significand scaled to 8
\* limbs and an even exponent, followed by a sticky bit
FloatSqrt(x) ==
  IF x.m = <<>> THEN FloatZero
  ELSE LET k == IF (x.e - 66) % 2 = 0 THEN 66 ELSE 67
           s == BigSqrt(BigShl(x.m, k))
       IN  FloatOf(BigAdd(BigMul(s.root, 2), IF s.rem = <<>> THEN <<>> ELSE <<1>>),
                   (x.e - k) \div 2 - 1)

\* the names of the metrics in the anomaly records and in the metrics maps
AnomalyMetrics ==
  << <<"accuracy", "accuracy">>, <<"latency", "latency_avg">>,
     <<"tokens", "tokens_avg">>, <<"consistency", "consistency">> >>

\* np.add.reduce of a list of fewer than 8 floats: added in order to 0.0
RECURSIVE FloatSum(_, _)
FloatSum(q, acc) ==
  IF q = <<>> THEN acc ELSE FloatSum(Tail(q), FloatAdd(acc, Head(q)))

\* np.mean(values)
np_mean(values) == FloatDivInt(FloatSum(values, FloatZero), Len(values))

\* the squares of the deviations from the mean
FloatSquare(x) == FloatMul(x, x)

SquaredDeviations(values, mean) ==
  [i \in 1..Len(values) |-> FloatSquare(FloatSub(values[i], mean).mag)]

\* np.std(values): the root of the mean of the squared deviations
np_std(values) ==
  FloatSqrt(FloatDivInt(FloatSum(SquaredDeviations(values, np_mean(values)),
                                 FloatZero),
                        Len(values)))

\* OutlierBounds with bounds one standard deviation from the mean
OutlierBounds_OneStd(mean_val, std_val) ==
  [mean_val    |-> mean_val,
   std_val     |-> std_val,
   lower_bound |-> FloatSub(mean_val, std_val),
   upper_bound |-> FloatAdd(mean_val, std_val)]

\* lower_bound = mean_val - 2 * std_val, upper_bound = mean_val + 2 * std_val
OutlierBounds(mean_val, std_val) ==
  [mean_val    |-> mean_val,
   std_val     |-> std_val,
   lower_bound |-> FloatSub(mean_val, FloatTwice(std_val)),
   upper_bound |-> FloatAdd(mean_val, FloatTwice(std_val))]

\* agent_metric < lower_bound
BelowLower(agent_metric, b) ==
  ~b.lower_bound.neg /\ FloatLess(agent_metric, b.lower_bound.mag)

\* agent_metric > upper_bound
AboveUpper(agent_metric, b) == FloatLess(b.upper_bound, agent_metric)

\* the anomalies of one metric, agent by agent
RECURSIVE AnomaliesFrom(_, _, _, _, _)
AnomaliesFrom(agents, m, values, b, i) ==
  IF i > Len(agents) THEN <<>>
  ELSE (IF BelowLower(values[i], b) \/ AboveUpper(values[i], b)
        THEN <<[agent_id |-> agents[i].id,
                metric   |-> m[1],
                value    |-> Get(agents[i].metrics, m[2]),
                mean     |-> b.mean_val,
                std_dev  |-> b.std_val,
                type     |-> IF BelowLower(values[i], b)
                             THEN "low_outlier" ELSE "high_outlier"]>>
        ELSE <<>>)
       \o AnomaliesFrom(agents, m, values, b, i + 1)

\* the values of a metric as floats
FloatColumn(agents, k) ==
  [i \in 1..Len(agents) |-> DecToFloat(Get(MetricsOf(agents[i]), k))]

\* the anomalies of the metrics from the k-th on, metric by metric
RECURSIVE AnomaliesOf(_, _)
AnomaliesOf(agents, k) ==
  IF k > Len(AnomalyMetrics) THEN <<>>
  ELSE AnomaliesFrom(agents, AnomalyMetrics[k],
                     FloatColumn(agents, AnomalyMetrics[k][2]),
                     OutlierBounds(np_mean(FloatColumn(agents, AnomalyMetrics[k][2])),
                                   np_std(FloatColumn(agents, AnomalyMetrics[k][2]))),
                     1)
         \o AnomaliesOf(agents, k + 1)

_detect_anomalies(agents) ==
  IF Len(agents) < 3
  THEN Returned([detected_anomalies |-> <<>>])
  ELSE IF \E i \in 1..Len(agents) : ~agents[i].has_metrics
  THEN Raised("KeyError")       \* agent["metrics"]
  ELSE Returned([detected_anomalies |-> AnomaliesOf(agents, 1)])

GeneralRecommendations ==
  <<[text |-> "additional_benchmarks", agent |-> "", other |-> ""],
    [text |-> "document_configurations", agent |-> "", other |-> ""],
    [text |-> "monitor_trends", agent |-> "", other |-> ""]>>

\* the recommendations of one agent, in the order of the rules
RecommendationsOf(agent) ==
  LET metrics == MetricsOf(agent)
      rec(t)  == <<[text |-> t, agent |-> agent.id, other |-> ""]>>
  IN  (IF Get(metrics, "accuracy") < 7500 THEN rec("fine_tuning") ELSE <<>>)
      \o (IF Get(metrics, "latency_avg") > 500 THEN rec("optimize_response_time") ELSE <<>>)
      \o (IF Get(metrics, "tokens_avg") > 200000 THEN rec("token_usage") ELSE <<>>)
      \o (IF Get(metrics, "consistency") < 400 THEN rec("improve_consistency") ELSE <<>>)

RECURSIVE IndividualRecommendations(_)
IndividualRecommendations(agents) ==
  IF agents = <<>> THEN <<>>
  ELSE RecommendationsOf(Head(agents)) \o IndividualRecommendations(Tail(agents))

\* accuracy_scores[best] - accuracy_scores[worst] > 10, a subtraction and a
\* comparison of floats
ExceedsByTen(best, worst) ==
  /\ ~FloatSub(DecToFloat(best), DecToFloat(worst)).neg
  /\ FloatLess(IntToFloat(10), FloatSub(DecToFloat(best), DecToFloat(worst)).mag)

\* the comparative recommendation of two or more agents
ComparativeRecommendations(agents) ==
  LET scores == Scores(agents, "accuracy")
      best   == MaxKey(scores)
      worst  == MinKey(scores)
  IN  IF Len(agents) > 1 /\ ExceedsByTen(scores.val[best], scores.val[worst])
      THEN <<[text |-> "compare_configurations", agent |-> best, other |-> worst]>>
      ELSE <<>>

\* a list whose order is not determined: how many times it holds each of
\* its elements
ListOf(q) == [x \in Range(q) |-> Cardinality({i \in 1..Len(q) : q[i] = x})]

\* list(set(recommendations)): every recommendation once, in an order that
\* is not determined
_generate_recommendations(agents) ==
  IF Len(agents) > 1 /\ \E i \in 1..Len(agents) : ~agents[i].has_metrics
  THEN Raised("KeyError")       \* agent["metrics"]
  ELSE Returned(ListOf(SetToSeq(Range(IndividualRecommendations(agents)
                                        \o ComparativeRecommendations(agents)
                                        \o GeneralRecommendations))))

\* deduct_patterns, given what its five stages return: [exc, value]
Deductions(benchmark_results, patterns, insights, correlations, anomalies, recs) ==
  IF ~benchmark_results.has_agents
  THEN Returned(EmptyMap)
  ELSE IF anomalies.exc # "none" THEN Raised(anomalies.exc)
  ELSE IF recs.exc # "none" THEN Raised(recs.exc)
  ELSE Returned(
         [performance_patterns |-> patterns,
          behavioral_insights  |-> insights,
          correlation_analysis |-> correlations,
          anomaly_detection    |-> anomalies.value,
          recommendations      |-> recs.value])

\* deduct_patterns: [exc, value]; the stages run in the order of the dict
deduct_patterns(benchmark_results, clustering) ==
  Deductions(benchmark_results,
             _identify_performance_patterns(benchmark_results.agents, clustering),
             _analyze_behavioral_patterns(benchmark_results.agents),
             _analyze_metric_correlations(benchmark_results.agents),
             _detect_anomalies(benchmark_results.agents),
             _generate_recommendations(benchmark_results.agents))

(***************************************************************************)
(* BenchmarkWorker: the pure parts of process_benchmark.                   *)
(***************************************************************************)
\* _create_agent: the adapter it returns, "none" for None.  The adapter
\* configuration classes validate benchmark_config["config"]; when they
\* reject it the exception is caught and None is returned.
_create_agent(agent_name, config_ok) ==
  IF agent_name = "gpt-4" THEN (IF config_ok THEN "openai" ELSE "none")
  ELSE IF agent_name = "claude-3" THEN (IF config_ok THEN "anthropic" ELSE "none")
  ELSE IF agent_name = "local" THEN "local"
  ELSE "none"

\* the loop over benchmark_config["agents"]: the names whose agent was created
CreatedAgents(benchmark_config) ==
  SelectSeq(benchmark_config.agents,
            LAMBDA n : _create_agent(n, benchmark_config.config_ok) # "none")

\* the entry of agent_responses for one query.  outcome.kind is "answered"
\* (the adapter returned a response dict), "error_result" (the adapter
\* returned {"error": ...}) or "raised" (the query, or the handling of
\* what it returned, raised).
ResponseRecord(agent_name, outcome) ==
  IF outcome.kind = "raised"
  THEN [agent |-> agent_name, error |-> TRUE, correct |-> FALSE, response |-> NoPayload]
  ELSE IF outcome.kind = "error_result"
  THEN [agent |-> agent_name, error |-> FALSE, correct |-> FALSE, response |-> ErrorPayload]
  ELSE [agent |-> agent_name, error |-> FALSE, correct |-> outcome.right,
        response |-> Payload(outcome.latency, outcome.tokens)]

\* question_results["agent_responses"].append in another order
AppendResponse_Prepend(question_results, record) ==
  [question_results EXCEPT !.agent_responses = <<record>> \o @]

\* question_results["agent_responses"].append(record)
AppendResponse(question_results, record) ==
  [question_results EXCEPT !.agent_responses = Append(@, record)]

\* category scores of 0.9 and 0.7 times the accuracy
CategoryScores_Spread(metrics) ==
  DictSet(DictSet(EmptyDict, "mathematics", Get(metrics, "accuracy") * 90),
          "logical_reasoning", Get(metrics, "accuracy") * 70)

\* "category_scores": {"mathematics": accuracy * 0.9,
\*                     "logical_reasoning": accuracy * 0.85}, in ten-thousandths
CategoryScores(metrics) ==
  DictSet(DictSet(EmptyDict, "mathematics", Get(metrics, "accuracy") * 90),
          "logical_reasoning", Get(metrics, "accuracy") * 85)

\* max over agents_data returning the last of the agents that have the
\* greatest accuracy
TopPerformer_Last(agents_data) ==
  LET acc(i) == Get(agents_data[i].metrics, "accuracy")
      i == CHOOSE i \in 1..Len(agents_data) :
             /\ \A j \in 1..Len(agents_data) : acc(j) <= acc(i)
             /\ \A j \in (i + 1)..Len(agents_data) : acc(j) < acc(i)
  IN  agents_data[i].id

\* max(agents_data, key=lambda x: x["metrics"].get("accuracy", 0))["id"]:
\* the first agent of the list with the greatest accuracy
TopPerformer(agents_data) ==
  LET acc(i) == Get(agents_data[i].metrics, "accuracy")
      i == CHOOSE i \in 1..Len(agents_data) :
             /\ \A j \in 1..Len(agents_data) : acc(j) <= acc(i)
             /\ \A j \in 1..(i - 1) : acc(j) < acc(i)
  IN  agents_data[i].id

_process_evaluated_results(evaluated_results, benchmark_id) ==
  LET agents_data ==
        [i \in 1..Len(evaluated_results.keys) |->
           LET metrics == evaluated_results.val[evaluated_results.keys[i]].metrics
           IN  [id |-> evaluated_results.keys[i],
                has_metrics |-> TRUE,
                metrics |-> metrics,
                category_scores |-> CategoryScores(metrics)]]
  IN  [has_agents |-> TRUE,
       benchmark  |-> benchmark_id,
       agents     |-> agents_data,
       summary    |->
         [top_performer |->
            IF agents_data # <<>>
            THEN TopPerformer(agents_data)
            ELSE "none"]]

\* json.dumps of the analysis and of the deductions in complete_benchmark:
\* the keys of performance_clusters are numpy integers, which json.dumps
\* rejects with a TypeError
JsonSerializable(report) ==
  report.deductions.performance_patterns.kind # "performance_clusters"

(***************************************************************************)
(* State.                                                                  *)
(*   epc, qi, ri, agent_stats: one call of evaluate_results stepped        *)
(*   through its two nested loops; results is its argument and evaluated   *)
(*   what it returns.                                                      *)
(*   wpc, benchmark_config, dataset, agents, question_results, results,    *)
(*   evaluated, processed_results, exc: one call of process_benchmark,     *)
(*   its position, its argument and its locals; exc is the exception in    *)
(*   flight or raised to the caller.                                       *)
(*   status, stored: the row of the run in the benchmarks table and what   *)
(*   complete_benchmark committed for it.                                  *)
(*   metrics_history: BenchmarkAnalytics.metrics_history of the global     *)
(*   instance; now: the clock datetime.now() reads.                        *)
(*   request, call: the argument the engines are called with and the last  *)
(*   call made, [op, clustering, exc, value].                              *)
(*   benchmarks: the rows of the benchmarks table by run_id;               *)
(*   benchmark_results: the dict of that name in api/routes.py; tasks: the *)
(*   position of each task simulate_benchmark_processing; pending: the     *)
(*   requests of the handlers of POST /benchmark/run that are at their     *)
(*   await; reply: the last answer given to a client, [op, run_id, arg,    *)
(*   code, body].                                                          *)
(***************************************************************************)
VARIABLES results, epc, qi, ri, agent_stats, evaluated,
          wpc, benchmark_config, dataset, agents, question_results,
          processed_results, exc, status, stored,
          metrics_history, now, request, call,
          benchmarks, benchmark_results, tasks, pending, reply

evalVars == <<results, epc, qi, ri, agent_stats, evaluated>>

workerVars == <<wpc, benchmark_config, dataset, agents, question_results,
                processed_results, exc, status, stored>>

engineVars == <<metrics_history, now, request, call>>

apiVars == <<benchmarks, benchmark_results, tasks, pending, reply>>

vars == <<results, epc, qi, ri, agent_stats, evaluated,
          wpc, benchmark_config, dataset, agents, question_results,
          processed_results, exc, status, stored,
          metrics_history, now, request, call,
          benchmarks, benchmark_results, tasks, pending, reply>>

NoQuestion == [question_id |-> 0, agent_responses |-> <<>>]
NoRequest == [has_agents |-> FALSE, benchmark |-> "", agents |-> <<>>]
NoCall == [op |-> "none", clustering |-> "", exc |-> "none", value |-> EmptyMap]

\* no call of evaluate_results is being stepped through
EvalIdle ==
  /\ epc = "idle"
  /\ qi = 1
  /\ ri = 1
  /\ agent_stats = EmptyDict

\* no call of process_benchmark
WorkerIdle ==
  /\ wpc = "idle"
  /\ benchmark_config = [benchmark |-> "", agents |-> <<>>, config_ok |-> TRUE]
  /\ dataset = [kind |-> "missing", data |-> <<>>]
  /\ agents = <<>>
  /\ question_results = NoQuestion
  /\ processed_results = <<>>
  /\ exc = "none"
  /\ status = "queued"
  /\ stored = <<>>

\* the engines as constructed, and not called directly
EngineIdle ==
  /\ metrics_history = <<>>
  /\ now = 0
  /\ request = NoRequest
  /\ call = NoCall

NoReply == [op |-> "none", run_id |-> 0, arg |-> None, code |-> 0, body |-> EmptyMap]

\* the API as started: no row, no result, no task, no request
ApiIdle ==
  /\ benchmarks = EmptyMap
  /\ benchmark_results = EmptyMap
  /\ tasks = EmptyMap
  /\ pending = EmptyMap
  /\ reply = NoReply

(***************************************************************************)
(* Inputs of the evaluator: the lists of at most MaxEvalQuestions question *)
(* results holding at most MaxEvalResponses responses in all, a question   *)
(* result being without responses only where there are fewer responses     *)
(* than questions.                                                         *)
(***************************************************************************)
MaxEvalQuestions == 2
MaxEvalResponses == 3

EvalResponses ==
  { [agent |-> "a1", error |-> FALSE, correct |-> TRUE,  response |-> Payload(10, 5)],
    [agent |-> "a1", error |-> FALSE, correct |-> FALSE, response |-> Payload(20, None)],
    [agent |-> "a1", error |-> FALSE, correct |-> TRUE,  response |-> Payload(30, 7)],
    [agent |-> "a1", error |-> TRUE,  correct |-> TRUE,  response |-> Payload(10, 5)],
    [agent |-> "a2", error |-> TRUE,  correct |-> FALSE, response |-> NoPayload],
    [agent |-> "a2", error |-> FALSE, correct |-> FALSE,
     response |-> [is_dict |-> FALSE, has_error |-> FALSE, latency |-> None, tokens |-> None]] }

\* the q - 1 places where a list of n responses is cut into q questions
Cuts(n, q) ==
  {c \in [1..(q - 1) -> 0..n] :
     /\ \A i \in 1..(q - 2) : c[i] <= c[i + 1]
     /\ n >= q => /\ \A i \in 1..(q - 2) : c[i] < c[i + 1]
                  /\ \A i \in 1..(q - 1) : 0 < c[i] /\ c[i] < n}

Split(s, c, q) ==
  [i \in 1..q |->
     [question_id     |-> i,
      agent_responses |-> SubSeq(s, (IF i = 1 THEN 0 ELSE c[i - 1]) + 1,
                                    IF i = q THEN Len(s) ELSE c[i])]]

EvalInputs ==
  {<<>>} \cup
  UNION { UNION { {Split(s, c, q) : c \in Cuts(Len(s), q)} :
                  s \in SeqsUpTo(EvalResponses, MaxEvalResponses) } :
          q \in 1..MaxEvalQuestions }

EvalInit ==
  /\ results \in EvalInputs
  /\ epc = "start"
  /\ qi = 1
  /\ ri = 1
  /\ agent_stats = EmptyDict
  /\ evaluated = EmptyDict
  /\ WorkerIdle
  /\ EngineIdle
  /\ ApiIdle

\* if not results: return {}
EvalEmpty ==
  /\ epc = "start"
  /\ results = <<>>
  /\ epc' = "done"
  /\ UNCHANGED <<results, qi, ri, agent_stats, evaluated>>
  /\ UNCHANGED <<workerVars, engineVars>>
  /\ UNCHANGED apiVars

EvalBegin ==
  /\ epc = "start"
  /\ results # <<>>
  /\ epc' = "loop"
  /\ UNCHANGED <<results, qi, ri, agent_stats, evaluated>>
  /\ UNCHANGED <<workerVars, engineVars>>
  /\ UNCHANGED apiVars

\* one iteration of: for agent_response in result.get("agent_responses", [])
EvalResponse ==
  /\ epc = "loop"
  /\ qi <= Len(results)
  /\ ri <= Len(results[qi].agent_responses)
  /\ agent_stats' = AccumulateInto(agent_stats, results[qi].agent_responses[ri])
  /\ ri' = ri + 1
  /\ UNCHANGED <<results, epc, qi, evaluated>>
  /\ UNCHANGED <<workerVars, engineVars>>
  /\ UNCHANGED apiVars

\* the inner loop is exhausted: next result
EvalNextResult ==
  /\ epc = "loop"
  /\ qi <= Len(results)
  /\ ri > Len(results[qi].agent_responses)
  /\ qi' = qi + 1
  /\ ri' = 1
  /\ UNCHANGED <<results, epc, agent_stats, evaluated>>
  /\ UNCHANGED <<workerVars, engineVars>>
  /\ UNCHANGED apiVars

\* the second loop and the return
EvalFinal ==
  /\ epc = "loop"
  /\ qi > Len(results)
  /\ evaluated' = FinalResults(agent_stats)
  /\ epc' = "done"
  /\ UNCHANGED <<results, qi, ri, agent_stats>>
  /\ UNCHANGED <<workerVars, engineVars>>
  /\ UNCHANGED apiVars

EvalNext == EvalEmpty \/ EvalBegin \/ EvalResponse \/ EvalNextResult \/ EvalFinal

SpecEval == EvalInit /\ [][EvalNext]_vars

\* the loops compute what the function computes
EvalAgrees == epc = "done" => evaluated = evaluate_results(results)

(***************************************************************************)
(* Properties of evaluate_results (specification SpecEval).                *)
(***************************************************************************)
\* the responses of agent a in the input, in order
ResponsesOf(rs, a) == SelectSeq(Flatten(rs), LAMBDA r : r.agent = a)

\* the exact sum, in hundredths, of the latencies the evaluator adds for a
LatencySum(rs, a) ==
  LET counted(r) == ~r.error /\ r.response.is_dict /\ r.response.latency # None
      rsp == SelectSeq(ResponsesOf(rs, a), counted)
  IN  SumSeq([i \in 1..Len(rsp) |-> rsp[i].response.latency])

Metrics(a) == evaluated.val[a].metrics
RawStats(a) == evaluated.val[a].raw_stats

\* C1 as stated: every metric is exactly its ratio (no rounding); an empty
\* input gives the empty map; a tally of zero questions gives zero ratios;
\* 7 correct of 10 gives exactly 70.
C1_ExactRatios ==
  epc = "done" =>
    /\ results = <<>> => evaluated = EmptyDict
    /\ \A a \in DOMAIN evaluated.val :
         LET n == RawStats(a).total_questions IN
         /\ n = Len(ResponsesOf(results, a))
         /\ Metrics(a).accuracy * n = RawStats(a).correct_answers * 10000
         /\ Metrics(a).latency_avg * n = LatencySum(results, a)
         /\ Metrics(a).tokens_avg * n = RawStats(a).total_tokens * 100
         /\ Metrics(a).error_rate * n = RawStats(a).errors * 10000

\* C1 (amended): every metric is its ratio rounded to two decimal places,
\* i.e. within half a hundredth of correct_answers / total_questions * 100,
\* total_latency / total_questions, total_tokens / total_questions and
\* errors / total_questions * 100, where total_questions counts every
\* response of the agent (errored ones included) and total_latency is the
\* sum of the latencies of its non-errored responses; an empty input gives
\* the empty map; a tally of zero questions gives zero ratios; 7 correct of
\* 10 gives exactly 70.
C1_RoundedRatios ==
  epc = "done" =>
    /\ results = <<>> => evaluated = EmptyDict
    /\ LET z == FinalMetrics(InitStats)
       IN  z.accuracy = 0 /\ z.latency_avg = 0 /\ z.tokens_avg = 0 /\ z.error_rate = 0
    /\ FinalMetrics([InitStats EXCEPT !.total_questions = 10,
                                      !.correct_answers = 7]).accuracy = 7000
    /\ \A a \in DOMAIN evaluated.val :
         LET n == RawStats(a).total_questions IN
         /\ n = Len(ResponsesOf(results, a))
         /\ n > 0
         /\ Round2Float(RawStats(a).total_latency) = LatencySum(results, a)
         /\ 2 * Abs(Metrics(a).accuracy * n - RawStats(a).correct_answers * 10000) <= n
         /\ 2 * Abs(Metrics(a).latency_avg * n - LatencySum(results, a)) <= n
         /\ 2 * Abs(Metrics(a).tokens_avg * n - RawStats(a).total_tokens * 100) <= n
         /\ 2 * Abs(Metrics(a).error_rate * n - RawStats(a).errors * 10000) <= n

\* an agent with 1 correct answer in 3 responses has been evaluated (33.33)
C1_Witness ==
  /\ epc = "done"
  /\ \E a \in DOMAIN evaluated.val :
       /\ RawStats(a).total_questions = 3
       /\ RawStats(a).correct_answers = 1
       /\ Metrics(a).accuracy = 3333

\* the response EvalResponse has just consumed
LastResponse == results[qi].agent_responses[ri - 1]

\* C4: a response that carries an error adds exactly one to its agent's
\* total_questions and errors and leaves correct_answers, total_latency and
\* total_tokens as they were, whatever else the response carries; and
\* correct_answers + errors <= total_questions for every agent throughout.
C4_ErrorOnlyCountsError ==
  /\ [](\A a \in DOMAIN agent_stats.val :
          agent_stats.val[a].correct_answers + agent_stats.val[a].errors
            <= agent_stats.val[a].total_questions)
  /\ [][ (epc = "loop" /\ ri' = ri + 1 /\ results[qi].agent_responses[ri].error) =>
           LET r   == results[qi].agent_responses[ri]
               old == IF r.agent \in DOMAIN agent_stats.val
                      THEN agent_stats.val[r.agent] ELSE InitStats
           IN  agent_stats'.val[r.agent] =
                 [old EXCEPT !.total_questions = @ + 1, !.errors = @ + 1] ]_vars

\* an errored response that also carries correct = true and a payload with
\* latency and usage has just been accumulated
C4_Witness ==
  /\ epc = "loop"
  /\ qi <= Len(results)
  /\ ri > 1
  /\ LastResponse.error
  /\ LastResponse.correct
  /\ LastResponse.response.latency # None
  /\ LastResponse.response.tokens # None
  /\ agent_stats.val[LastResponse.agent].errors >= 1

\* C5: every agent's metrics satisfy 0 <= accuracy <= 100,
\* 0 <= error_rate <= 100, consistency = 100 - error_rate, latency_avg >= 0
\* and tokens_avg >= 0, and the output has exactly one entry per distinct
\* agent name that appears in some response.
C5_MetricRanges ==
  epc = "done" =>
    /\ \A a \in DOMAIN evaluated.val :
         /\ 0 <= Metrics(a).accuracy /\ Metrics(a).accuracy <= 10000
         /\ 0 <= Metrics(a).error_rate /\ Metrics(a).error_rate <= 10000
         /\ Metrics(a).consistency = 10000 - Metrics(a).error_rate
         /\ Metrics(a).latency_avg >= 0
         /\ Metrics(a).tokens_avg >= 0
    /\ DOMAIN evaluated.val = {r.agent : r \in Range(Flatten(results))}
    /\ Range(evaluated.keys) = DOMAIN evaluated.val
    /\ Len(evaluated.keys) = Cardinality(DOMAIN evaluated.val)

\* two agents have been evaluated, one of them with some but not all of
\* its responses errored
C5_Witness ==
  /\ epc = "done"
  /\ Cardinality(DOMAIN evaluated.val) = 2
  /\ \E a \in DOMAIN evaluated.val :
       /\ Metrics(a).error_rate > 0
       /\ Metrics(a).error_rate < 10000

Bijections(n) == {f \in [1..n -> 1..n] : \A i, j \in 1..n : i # j => f[i] # f[j]}

Perms(q) == {[i \in 1..Len(q) |-> q[f[i]]] : f \in Bijections(Len(q))}

\* the result lists with the responses of each question permuted
RECURSIVE InnerPerms(_)
InnerPerms(rs) ==
  IF rs = <<>> THEN {<<>>}
  ELSE {<<[Head(rs) EXCEPT !.agent_responses = p]>> \o rest :
          p \in Perms(Head(rs).agent_responses), rest \in InnerPerms(Tail(rs))}

\* every reordering of the questions and of the responses inside each
ResultPerms(rs) == UNION {Perms(x) : x \in InnerPerms(rs)}

\* C6 as stated: under every permutation of the results and of the responses
\* inside each result, every agent gets the same raw_stats and metrics.
C6_OrderIndependent ==
  epc = "done" => \A p \in ResultPerms(results) : evaluate_results(p).val = evaluated.val

\* an entry without the two fields computed from the float sum
SansLatency(entry) ==
  [metrics   |-> [entry.metrics EXCEPT !.latency_avg = 0],
   raw_stats |-> [entry.raw_stats EXCEPT !.total_latency = FloatZero]]

\* C6 (amended): under every permutation of the results and of the responses
\* inside each result, every agent gets the same total_questions,
\* correct_answers, total_tokens and errors and the same accuracy,
\* tokens_avg, error_rate and consistency; total_latency is a float sum and
\* agrees only up to its rounding (it is the same to two decimal places),
\* so it and latency_avg may depend on the order.
C6_OrderIndependentCounts ==
  epc = "done" =>
    \A p \in ResultPerms(results) :
      LET other == evaluate_results(p).val IN
      /\ DOMAIN other = DOMAIN evaluated.val
      /\ \A a \in DOMAIN other :
           /\ SansLatency(other[a]) = SansLatency(evaluated.val[a])
           /\ Round2Float(other[a].raw_stats.total_latency)
                = Round2Float(evaluated.val[a].raw_stats.total_latency)

\* an input has been evaluated of which some reordering changes an agent's
\* total_latency
C6_Witness ==
  /\ epc = "done"
  /\ \E p \in ResultPerms(results) :
       \E a \in DOMAIN evaluated.val :
         evaluate_results(p).val[a].raw_stats.total_latency
           # evaluated.val[a].raw_stats.total_latency

(***************************************************************************)
(* BenchmarkWorker.process_benchmark, one action per step between two      *)
(* awaits, with BenchmarkService.complete_benchmark and fail_benchmark.    *)
(***************************************************************************)
MaxQuestions == 2
MaxAgents == 2

AgentNames == {"gpt-4", "local", "other"}

\* the configurations: at most MaxAgents agent names, each once
Configs ==
  [benchmark : {"mmlu"},
   agents    : {a \in SeqsUpTo(AgentNames, MaxAgents) :
                  \A i, j \in 1..Len(a) : a[i] = a[j] => i = j},
   config_ok : BOOLEAN]

Datasets ==
  {[kind |-> "missing", data |-> <<>>], [kind |-> "invalid", data |-> <<>>]}
  \cup {[kind |-> "ok", data |-> [i \in 1..n |-> [id |-> i]]] : n \in 0..MaxQuestions}

\* what a query can come to: an answer, right or wrong, with its latency in
\* hundredths of a second and its total_tokens; an error result; an exception
QueryOutcomes ==
  {[kind |-> "answered", right |-> TRUE, latency |-> 10, tokens |-> 50],
   [kind |-> "answered", right |-> FALSE, latency |-> 30, tokens |-> 70],
   [kind |-> "error_result", right |-> FALSE, latency |-> None, tokens |-> None],
   [kind |-> "raised", right |-> FALSE, latency |-> None, tokens |-> None]}

Init ==
  /\ benchmark_config \in Configs
  /\ dataset \in Datasets
  /\ wpc = "load"
  /\ agents = <<>>
  /\ question_results = NoQuestion
  /\ results = <<>>
  /\ evaluated = EmptyDict
  /\ processed_results = <<>>
  /\ exc = "none"
  /\ status = "queued"
  /\ stored = <<>>
  /\ EvalIdle
  /\ EngineIdle
  /\ ApiIdle

\* os.path.exists(dataset_path) and json.load(f)
LoadDataset ==
  /\ wpc = "load"
  /\ IF dataset.kind = "missing"
     THEN exc' = "FileNotFoundError" /\ wpc' = "except"
     ELSE IF dataset.kind = "invalid"
     THEN exc' = "JSONDecodeError" /\ wpc' = "except"
     ELSE exc' = exc /\ wpc' = "create"
  /\ UNCHANGED <<benchmark_config, dataset, agents, question_results,
                 processed_results, status, stored>>
  /\ UNCHANGED <<evalVars, engineVars>>
  /\ UNCHANGED apiVars

\* the loop over benchmark_config["agents"]
CreateAgents ==
  /\ wpc = "create"
  /\ agents' = CreatedAgents(benchmark_config)
  /\ wpc' = "questions"
  /\ UNCHANGED <<benchmark_config, dataset, question_results,
                 processed_results, exc, status, stored>>
  /\ UNCHANGED <<evalVars, engineVars>>
  /\ UNCHANGED apiVars

\* for question in dataset["data"]: a new question_results
BeginQuestion ==
  /\ wpc = "questions"
  /\ Len(results) < Len(dataset.data)
  /\ question_results' = [question_id |-> dataset.data[Len(results) + 1].id,
                          agent_responses |-> <<>>]
  /\ wpc' = "agents"
  /\ UNCHANGED <<benchmark_config, dataset, agents, processed_results, exc, status, stored>>
  /\ UNCHANGED <<evalVars, engineVars>>
  /\ UNCHANGED apiVars

\* await agent.query(question["question"]) for the next agent, and the
\* record appended for it
Query ==
  /\ wpc = "agents"
  /\ Len(question_results.agent_responses) < Len(agents)
  /\ \E outcome \in QueryOutcomes :
       question_results' =
         AppendResponse(question_results,
                        ResponseRecord(agents[Len(question_results.agent_responses) + 1],
                                       outcome))
  /\ UNCHANGED <<wpc, benchmark_config, dataset, agents, processed_results, exc,
                 status, stored>>
  /\ UNCHANGED <<evalVars, engineVars>>
  /\ UNCHANGED apiVars

\* results.append(question_results)
EndQuestion ==
  /\ wpc = "agents"
  /\ Len(question_results.agent_responses) = Len(agents)
  /\ results' = Append(results, question_results)
  /\ wpc' = "questions"
  /\ UNCHANGED <<benchmark_config, dataset, agents, question_results,
                 processed_results, exc, status, stored>>
  /\ UNCHANGED <<epc, qi, ri, agent_stats, evaluated, engineVars>>
  /\ UNCHANGED apiVars

\* a merge that also rewrites the agents of the report, their accuracy
\* turned from a percentage into a fraction
Merged_Rescaled(processed, analysis, deductions) ==
  [benchmark  |-> processed.benchmark,
   agents     |-> [i \in 1..Len(processed.agents) |->
                    [processed.agents[i] EXCEPT !.metrics.accuracy = @ \div 100]],
   summary    |-> processed.summary,
   analysis   |-> analysis,
   deductions |-> deductions]

\* processed_results["analysis"] = analysis;
\* processed_results["deductions"] = deductions
Merged(processed, analysis, deductions) ==
  [benchmark  |-> processed.benchmark,
   agents     |-> processed.agents,
   summary    |-> processed.summary,
   analysis   |-> analysis,
   deductions |-> deductions]

\* where the reduction stages leave process_benchmark: the exception one of
\* them raised, or the merged report
Reduced(evaluated_results, processed, analysis, deductions) ==
  [evaluated_results |-> evaluated_results,
   appended |-> IF analysis.appended THEN <<analysis.value>> ELSE <<>>,
   exc      |-> IF analysis.exc # "none" THEN analysis.exc ELSE deductions.exc,
   report   |-> IF analysis.exc = "none" /\ deductions.exc = "none"
                THEN <<Merged(processed, analysis.value, deductions.value)>>
                ELSE <<>>]

Analyzed(evaluated_results, processed, timestamp, clustering) ==
  Reduced(evaluated_results, processed,
          analyze_benchmark_results(processed, timestamp),
          deduct_patterns(processed, clustering))

Evaluated(evaluated_results, benchmark_id, timestamp, clustering) ==
  Analyzed(evaluated_results,
           _process_evaluated_results(evaluated_results, benchmark_id),
           timestamp, clustering)

\* evaluate_results, _process_evaluated_results, analyze_benchmark_results
\* and deduct_patterns
Reduce ==
  /\ wpc = "questions"
  /\ Len(results) = Len(dataset.data)
  /\ \E evaluated_results \in {evaluate_results(results)} :
     \E clustering \in ClusteringOutcomes(Len(evaluated_results.keys)) :
       \E r \in {Evaluated(evaluated_results, benchmark_config.benchmark,
                           now, clustering)} :
         /\ evaluated' = r.evaluated_results
         /\ metrics_history' = metrics_history \o r.appended
         /\ processed_results' = r.report
         /\ exc' = r.exc
         /\ wpc' = IF r.exc = "none" THEN "complete" ELSE "except"
  /\ UNCHANGED <<benchmark_config, dataset, agents, question_results, status, stored>>
  /\ UNCHANGED <<results, epc, qi, ri, agent_stats, now, request, call>>
  /\ UNCHANGED apiVars

\* complete_benchmark: the status and the results are committed together,
\* or an exception (the database, json.dumps) leaves nothing committed
CompleteBenchmark ==
  /\ wpc = "complete"
  /\ \E database_ok \in BOOLEAN :
       IF database_ok /\ JsonSerializable(processed_results[1])
       THEN /\ status' = "completed"
            /\ stored' = processed_results
            /\ wpc' = "returned"
            /\ exc' = exc
       ELSE /\ exc' = IF JsonSerializable(processed_results[1])
                      THEN "DatabaseError" ELSE "TypeError"
            /\ wpc' = "except"
            /\ UNCHANGED <<status, stored>>
  /\ UNCHANGED <<benchmark_config, dataset, agents, question_results, processed_results>>
  /\ UNCHANGED <<evalVars, engineVars>>
  /\ UNCHANGED apiVars

\* except Exception as e: await fail_benchmark(run_id, str(e)); raise e.
\* fail_benchmark re-raises what the database raises.
FailBenchmark ==
  /\ wpc = "except"
  /\ \E database_ok \in BOOLEAN :
       IF database_ok
       THEN status' = "failed" /\ exc' = exc
       ELSE status' = status /\ exc' = "DatabaseError"
  /\ wpc' = "raised"
  /\ UNCHANGED <<benchmark_config, dataset, agents, question_results,
                 processed_results, stored>>
  /\ UNCHANGED <<evalVars, engineVars>>
  /\ UNCHANGED apiVars

Next ==
  \/ LoadDataset
  \/ CreateAgents
  \/ BeginQuestion
  \/ Query
  \/ EndQuestion
  \/ Reduce
  \/ CompleteBenchmark
  \/ FailBenchmark

Spec == Init /\ [][Next]_vars

(***************************************************************************)
(* Properties of process_benchmark (specification Spec).                   *)
(***************************************************************************)
\* the query behind a recorded response failed: it raised, or the adapter
\* returned an error result
QueryFailed(r) == r.error \/ r.response.has_error

\* every response recorded so far, the current question's included
Recorded == Flatten(results) \o question_results.agent_responses

\* C2: a failed query (raised, or answered with an error result) is
\* recorded as an error with correct = false, and once the results are
\* evaluated the agent's errors count its failed queries.
C2_QueryFailureCounted ==
  /\ \A i \in 1..Len(Recorded) :
       QueryFailed(Recorded[i]) => Recorded[i].error /\ ~Recorded[i].correct
  /\ wpc \in {"complete", "returned"} =>
       \A a \in DOMAIN evaluated.val :
         evaluated.val[a].raw_stats.errors
           = Len(SelectSeq(ResponsesOf(results, a), QueryFailed))

\* C3: a call of process_benchmark that has ended either returned with the
\* run completed and the merged report persisted, or raised with the run
\* failed and nothing persisted.
C3_CompletedOrFailed ==
  wpc \in {"returned", "raised"} =>
    \/ wpc = "returned" /\ status = "completed"
         /\ stored = processed_results /\ stored # <<>>
    \/ wpc = "raised" /\ status = "failed" /\ stored = <<>> /\ exc # "none"

\* C7: results holds one entry per question handled, in the order of the
\* dataset, each with one response per created agent in the order of
\* benchmark_config["agents"], whatever the queries came to; when the loop
\* is over it holds an entry for every question.
C7_OneResultPerQuestion ==
  /\ Len(results) <= Len(dataset.data)
  /\ \A i \in 1..Len(results) :
       /\ results[i].question_id = dataset.data[i].id
       /\ [j \in 1..Len(results[i].agent_responses) |->
             results[i].agent_responses[j].agent] = CreatedAgents(benchmark_config)
  /\ wpc \in {"complete", "returned"} => Len(results) = Len(dataset.data)

\* two questions were put to two different agents, a query failed and
\* another was answered, and the loop is over
C7_Witness ==
  /\ wpc = "complete"
  /\ Len(results) = 2
  /\ Len(agents) = 2
  /\ agents[1] # agents[2]
  /\ QueryFailed(results[1].agent_responses[1])
  /\ ~QueryFailed(results[1].agent_responses[2])
  /\ results[2].agent_responses[2].error

(***************************************************************************)
(* The engines called directly: BenchmarkAnalytics.analyze_benchmark_      *)
(* results and DataDeductionEngine.deduct_patterns on one argument, any    *)
(* number of times, while the clock runs.                                  *)
(***************************************************************************)
MaxAnalyticsAgents == 3
MaxHistory == 2
MaxClock == 1

AgentIds == <<"a1", "a2", "a3", "a4", "a5", "a6">>

\* an agent with every metric, one with other values, one with accuracy
\* only, one without a "metrics" key
Profiles ==
  {[has_metrics |-> TRUE,
    metrics |-> [accuracy |-> 9500, latency_avg |-> 80, tokens_avg |-> 12000,
                 error_rate |-> 0, consistency |-> 10000],
    category_scores |-> DictSet(DictSet(EmptyDict, "mathematics", 950000),
                                "logical_reasoning", 700000)],
   [has_metrics |-> TRUE,
    metrics |-> [accuracy |-> 6000, latency_avg |-> 620, tokens_avg |-> 30000,
                 error_rate |-> 2000, consistency |-> 8000],
    category_scores |-> DictSet(DictSet(EmptyDict, "mathematics", 600000),
                                "logical_reasoning", 580000)],
   [has_metrics |-> TRUE,
    metrics |-> [accuracy |-> 8000],
    category_scores |-> EmptyDict],
   [has_metrics |-> FALSE,
    metrics |-> EmptyMap,
    category_scores |-> EmptyDict]}

\* every list of up to MaxAnalyticsAgents agents drawn from the profiles
ProfileInputs ==
  UNION { { [i \in 1..n |->
               [id |-> AgentIds[i],
                has_metrics |-> p[i].has_metrics,
                metrics |-> p[i].metrics,
                category_scores |-> p[i].category_scores]] :
            p \in [1..n -> Profiles] } :
          n \in 0..MaxAnalyticsAgents }

\* an agent as the unit tests write one: an id and a metrics map
Agent(i, accuracy, latency_avg, tokens_avg, consistency) ==
  [id |-> AgentIds[i],
   has_metrics |-> TRUE,
   metrics |-> [accuracy |-> accuracy, latency_avg |-> latency_avg,
                tokens_avg |-> tokens_avg, consistency |-> consistency],
   category_scores |-> EmptyDict]

\* one agent with its metrics on either side of every threshold of the
\* ratings, the insights and the recommendations
GridInputs ==
  { <<Agent(1, a, l, t, c)>> :
      a \in {6999, 7000, 7499, 7500, 7999, 8000, 8999, 9000},
      l \in {100, 101, 200, 201, 300, 301, 500, 501},
      t \in {200000, 200001},
      c \in {399, 400} }

\* the agent lists of the unit tests and of the examples of the
\* specification, and lists long enough to hold an outlier
FixtureInputs ==
  { \* test_anomaly_detection
    <<Agent(1, 8500, 200, 100000, 400), Agent(2, 8700, 220, 105000, 410),
      Agent(3, 7000, 210, 102000, 400)>>,
    \* test_recommendations_generation
    <<Agent(1, 6500, 600, 250000, 300)>>,
    \* test_performance_metrics_analysis
    <<Agent(1, 9500, 150, 80000, 480)>>,
    \* test_insights_generation
    <<Agent(1, 9500, 300, 150000, 490)>>,
    \* test_comparative_analysis
    <<Agent(1, 8500, 200, 100000, 400), Agent(2, 9200, 150, 120000, 450)>>,
    \* test_statistical_summary
    <<[id |-> AgentIds[1], has_metrics |-> TRUE,
       metrics |-> [accuracy |-> 8000, latency_avg |-> 200],
       category_scores |-> EmptyDict],
      [id |-> AgentIds[2], has_metrics |-> TRUE,
       metrics |-> [accuracy |-> 9000, latency_avg |-> 100],
       category_scores |-> EmptyDict]>>,
    \* accuracies 10 apart that are not floats 10 apart
    <<Agent(1, 1601, 200, 100000, 400), Agent(2, 601, 200, 100000, 400)>>,
    <<Agent(1, 7000, 200, 100000, 400), Agent(2, 8000, 200, 100000, 400)>>,
    \* five agents, the last one exactly 2 standard deviations below the mean
    <<Agent(1, 8000, 200, 100000, 400), Agent(2, 8000, 200, 100000, 400),
      Agent(3, 8000, 200, 100000, 400), Agent(4, 8000, 200, 100000, 400),
      Agent(5, 4010, 200, 100000, 400)>>,
    \* two agents under one id, each given every recommendation
    <<Agent(1, 6500, 600, 250000, 300), Agent(1, 6500, 600, 250000, 300)>>,
    \* a latency above 10 s, and two agents with the same metrics
    <<Agent(1, 6000, 1200, 100000, 400), Agent(2, 9000, 200, 100000, 400),
      Agent(3, 9000, 200, 100000, 400)>>,
    \* six agents, one far below in accuracy and another far above in latency
    <<Agent(1, 9000, 200, 100000, 400), Agent(2, 9000, 900, 100000, 400),
      Agent(3, 9000, 200, 100000, 400), Agent(4, 9000, 200, 100000, 400),
      Agent(5, 9000, 200, 100000, 400), Agent(6, 1000, 200, 100000, 400)>> }
  \cup
  \* three to five agents, all but the last with the same accuracy: the
  \* lists in which a value is the farthest it can be from the mean
  { [i \in 1..n |-> Agent(i, IF i < n THEN 8000 ELSE x, 200, 100000, 400)] :
      n \in 3..5, x \in {0, 3, 5, 4000, 4010, 9000} }

AnalyticsInputs ==
  {NoRequest} \cup
  { [has_agents |-> TRUE, benchmark |-> "mmlu", agents |-> list] :
      list \in ProfileInputs \cup GridInputs \cup FixtureInputs }

AnalyticsInit ==
  /\ request \in AnalyticsInputs
  /\ metrics_history = <<>>
  /\ now = 0
  /\ call = NoCall
  /\ results = <<>>
  /\ evaluated = EmptyDict
  /\ EvalIdle
  /\ WorkerIdle
  /\ ApiIdle

\* benchmark_analytics.analyze_benchmark_results(request)
Analyze ==
  /\ Len(metrics_history) < MaxHistory
  /\ \E r \in {analyze_benchmark_results(request, now)} :
       /\ call' = [op |-> "analyze", clustering |-> "", exc |-> r.exc, value |-> r.value]
       /\ metrics_history' = IF r.appended
                             THEN Append(metrics_history, r.value)
                             ELSE metrics_history
  /\ UNCHANGED <<now, request>>
  /\ UNCHANGED <<evalVars, workerVars>>
  /\ UNCHANGED apiVars

\* data_deduction_engine.deduct_patterns(request)
Deduct ==
  /\ \E insights \in {_analyze_behavioral_patterns(request.agents)},
        correlations \in {_analyze_metric_correlations(request.agents)},
        anomalies \in {_detect_anomalies(request.agents)},
        recs \in {_generate_recommendations(request.agents)} :
     \E clustering \in ClusteringOutcomes(Len(request.agents)) :
       \E r \in {Deductions(request,
                            _identify_performance_patterns(request.agents, clustering),
                            insights, correlations, anomalies, recs)} :
         call' = [op |-> "deduct", clustering |-> clustering.kind, exc |-> r.exc,
                  value |-> r.value]
  /\ UNCHANGED <<metrics_history, now, request>>
  /\ UNCHANGED <<evalVars, workerVars>>
  /\ UNCHANGED apiVars

\* time passes
Tick ==
  /\ now < MaxClock
  /\ now' = now + 1
  /\ UNCHANGED <<metrics_history, request, call>>
  /\ UNCHANGED <<evalVars, workerVars>>
  /\ UNCHANGED apiVars

AnalyticsNext == Analyze \/ Deduct \/ Tick

SpecAnalytics == AnalyticsInit /\ [][AnalyticsNext]_vars

(***************************************************************************)
(* Properties of the engines (specification SpecAnalytics).                *)
(***************************************************************************)
\* a step that is a call of analyze_benchmark_results following another
AnalyzedAgain == call.op = "analyze" /\ call'.op = "analyze" /\ now' = now

SansTimestamp(analysis) == [k \in DOMAIN analysis \ {"timestamp"} |-> analysis[k]]

Sections == {"performance_metrics", "comparative_analysis", "statistical_summary", "insights"}

\* C9: analyze_benchmark_results raises for no list of agents, rates an
\* agent by the 0 that stands for a metric it lacks, and returns every
\* section.
C9_AbsentDataNeverRaises ==
  call.op = "analyze" /\ request.has_agents =>
    /\ call.exc = "none"
    /\ Sections \subseteq DOMAIN call.value
    /\ \A i \in 1..Len(request.agents) :
         LET agent == request.agents[i]
             entry == call.value.performance_metrics.val[agent.id]
         IN  /\ "accuracy" \notin DOMAIN MetricsOf(agent) =>
                  entry.accuracy_analysis = [value |-> 0, rating |-> "Poor"]
             /\ "latency_avg" \notin DOMAIN MetricsOf(agent) =>
                  entry.latency_analysis = [value |-> 0, rating |-> "Excellent"]

\* C10: a stage given fewer agents than it needs returns a marker, no
\* stage raises because of it, and the other sections are returned.
C10_InsufficientDataMarked ==
  /\ call.op = "analyze" /\ request.has_agents /\ Len(request.agents) < 2 =>
       /\ call.exc = "none"
       /\ call.value.comparative_analysis.kind = "comparison_not_available"
       /\ Sections \subseteq DOMAIN call.value
  /\ call.op = "deduct" /\ request.has_agents /\ Len(request.agents) < 3 =>
       /\ call.exc = "none"
       /\ Len(request.agents) < 2 =>
            call.value.performance_patterns.kind = "insufficient_data"
       /\ call.value.correlation_analysis = [kind |-> "insufficient_data"]
       /\ "insufficient_data" \in DOMAIN call.value.anomaly_detection


(***************************************************************************)
(* Anomaly detection (specification SpecAnalytics).                        *)
(***************************************************************************)
AllHaveMetrics == \A i \in 1..Len(request.agents) : request.agents[i].has_metrics

\* deduct_patterns returned the deductions of a list of agents
Deducted == call.op = "deduct" /\ call.exc = "none" /\ request.has_agents

Anomalies == call.value.anomaly_detection.detected_anomalies

\* the records of agent i for a metric
RecordsOf(i, metric) ==
  {j \in 1..Len(Anomalies) :
     /\ Anomalies[j].agent_id = request.agents[i].id
     /\ Anomalies[j].metric = metric}

Flagged(i, metric, type) ==
  \E j \in RecordsOf(i, metric) : Anomalies[j].type = type

\* C11: of three agents with accuracies 85, 87 and 70 the third is
\* reported as a low outlier on accuracy.
C11_LowAccuracyFlagged ==
  /\ call.op = "deduct"
  /\ AllHaveMetrics
  /\ Column(request.agents, "accuracy") = <<8500, 8700, 7000>>
  => /\ call.exc = "none"
     /\ Flagged(3, "accuracy", "low_outlier")

\* x lies beyond mean - 2 * std (low) or mean + 2 * std (high), mean and std
\* being the exact mean and population standard deviation of vals:
\* |n * x - sum|^2 > 4 * n^2 * variance on the side asked for
ExactDistance(vals, x, low) ==
  IF low THEN SumSeq(vals) - Len(vals) * x ELSE Len(vals) * x - SumSeq(vals)

ExactlyBeyond(vals, x, low) ==
  /\ ExactDistance(vals, x, low) > 0
  /\ BigLess(BigMul(VarianceTimesN2(vals), 4),
             BigProduct(ExactDistance(vals, x, low), ExactDistance(vals, x, low)))

\* x lies exactly on the bound
ExactlyOn(vals, x, low) ==
  /\ ExactDistance(vals, x, low) > 0
  /\ BigMul(VarianceTimesN2(vals), 4)
       = BigProduct(ExactDistance(vals, x, low), ExactDistance(vals, x, low))

Degenerate ==
  \E k \in {"accuracy", "latency_avg", "tokens_avg"} :
    \A i, j \in 1..Len(request.agents) :
      Column(request.agents, k)[i] = Column(request.agents, k)[j]

\* C13: with 3 agents or more and a degenerate vector the correlation
\* analysis is a structured error and the deductions are returned.
C13_DegenerateCorrelationReported ==
  /\ call.op = "deduct"
  /\ Len(request.agents) >= 3
  /\ AllHaveMetrics
  /\ Degenerate
  => /\ call.exc = "none"
     /\ call.value.correlation_analysis.kind = "correlation_error"

\* analyze_benchmark_results returned the analysis of a list of agents
AnalyzedAgents == call.op = "analyze" /\ call.exc = "none" /\ request.has_agents

\* C14: the statistical summary has an entry for a metric only if every
\* agent has that metric.
C14_SummaryOnlyCommonMetrics ==
  AnalyzedAgents =>
    \A k \in DOMAIN call.value.statistical_summary :
      \A i \in 1..Len(request.agents) : k \in DOMAIN MetricsOf(request.agents[i])


(***************************************************************************)
(* The comparative analysis.                                               *)
(***************************************************************************)
\* analyze_benchmark_results returned a comparison of two agents or more
Compared == AnalyzedAgents /\ Len(request.agents) >= 2

Ranking == call.value.comparative_analysis.performance_ranking

\* accuracy * 0.5 + max(0, (10 - latency_avg) * 2) + consistency * 0.3 of
\* agent i, in thousandths
ExpectedScore(i) ==
  LET metrics == MetricsOf(request.agents[i])
  IN  5 * Get(metrics, "accuracy")
        + Max({0, 20 * (1000 - Get(metrics, "latency_avg"))})
        + 3 * Get(metrics, "consistency")

\* the place of agent i: after the agents of a higher score and the earlier
\* agents of the same score
ExpectedPlace(i) ==
  1 + Cardinality({j \in 1..Len(request.agents) :
                     \/ ExpectedScore(j) > ExpectedScore(i)
                     \/ ExpectedScore(j) = ExpectedScore(i) /\ j < i})

\* C15: performance_ranking has one entry per agent, holding its composite
\* score, in non-increasing order of the score, agents of the same score in
\* the order of the input.
C15_RankingSortedStable ==
  Compared =>
    /\ Len(Ranking) = Len(request.agents)
    /\ \A i \in 1..Len(request.agents) :
         /\ Ranking[ExpectedPlace(i)].agent_id = request.agents[i].id
         /\ Ranking[ExpectedPlace(i)].composite_score = ExpectedScore(i)
    /\ \A j, k \in 1..Len(Ranking) :
         j < k => Ranking[j].composite_score >= Ranking[k].composite_score

\* three agents ranked: the second and the third, of the same score, in
\* their input order, then the first, whose latency above 10 s scores 0
C15_Witness ==
  /\ Compared
  /\ Len(request.agents) = 3
  /\ Get(request.agents[1].metrics, "latency_avg") > 1000
  /\ ExpectedScore(2) = ExpectedScore(3)
  /\ Ranking[1].agent_id = request.agents[2].id
  /\ Ranking[2].agent_id = request.agents[3].id
  /\ Ranking[3].agent_id = request.agents[1].id
  /\ Ranking[3].composite_score = 5 * 6000 + 3 * 400

DistinctIds ==
  \A i, j \in 1..Len(request.agents) :
    request.agents[i].id = request.agents[j].id => i = j

\* agent i is the first agent whose metric k is the greatest (the least) of
\* all agents
FirstGreatest(i, k) ==
  LET vals == Column(request.agents, k)
  IN  /\ \A j \in 1..Len(vals) : vals[j] <= vals[i]
      /\ \A j \in 1..(i - 1) : vals[j] < vals[i]

FirstLeast(i, k) ==
  LET vals == Column(request.agents, k)
  IN  /\ \A j \in 1..Len(vals) : vals[j] >= vals[i]
      /\ \A j \in 1..(i - 1) : vals[j] > vals[i]

\* C16: for agents of distinct ids, best_accuracy is the first agent of the
\* greatest accuracy, best_latency the first of the least latency_avg and
\* most_efficient the first of the least tokens_avg.
C16_BestAgentsFirstExtreme ==
  Compared /\ DistinctIds =>
    \A i \in 1..Len(request.agents) :
      /\ FirstGreatest(i, "accuracy") <=>
           call.value.comparative_analysis.best_accuracy = request.agents[i].id
      /\ FirstLeast(i, "latency_avg") <=>
           call.value.comparative_analysis.best_latency = request.agents[i].id
      /\ FirstLeast(i, "tokens_avg") <=>
           call.value.comparative_analysis.most_efficient = request.agents[i].id

\* of three agents the second and the third share the greatest accuracy
\* and the least latency, and all three the tokens: the second, the second
\* and the first are named
C16_Witness ==
  /\ Compared
  /\ DistinctIds
  /\ Len(request.agents) = 3
  /\ Column(request.agents, "accuracy") = <<6000, 9000, 9000>>
  /\ Column(request.agents, "latency_avg") = <<1200, 200, 200>>
  /\ Column(request.agents, "tokens_avg") = <<100000, 100000, 100000>>
  /\ call.value.comparative_analysis.best_accuracy = request.agents[2].id
  /\ call.value.comparative_analysis.best_latency = request.agents[2].id
  /\ call.value.comparative_analysis.most_efficient = request.agents[1].id


(***************************************************************************)
(* Ratings and insights.                                                   *)
(***************************************************************************)
Insights == call.value.insights

\* the rating of agent i in performance_metrics
AccuracyRating(i) ==
  call.value.performance_metrics.val[request.agents[i].id].accuracy_analysis.rating

LatencyRating(i) ==
  call.value.performance_metrics.val[request.agents[i].id].latency_analysis.rating

\* the insights say text of agent i
Says(i, text) ==
  \E j \in 1..Len(Insights) :
    Insights[j] = [agent |-> request.agents[i].id, text |-> text]

\* C17 as stated: every accuracy and latency insight is emitted exactly
\* when the rating of its bucket is the agent's rating.
C17_InsightsMatchRatings ==
  AnalyzedAgents /\ DistinctIds =>
    \A i \in 1..Len(request.agents) :
      /\ Says(i, "excellent_precision") <=> AccuracyRating(i) = "Excellent"
      /\ Says(i, "good_precision") <=> AccuracyRating(i) = "Good"
      /\ Says(i, "precision_needs_improvement") <=> AccuracyRating(i) = "Poor"
      /\ Says(i, "excellent_response_time") <=> LatencyRating(i) = "Excellent"
      /\ Says(i, "high_latency") <=> LatencyRating(i) = "Poor"

\* C17: the accuracy insights and the high-latency insight are emitted
\* exactly when the rating of their bucket is the agent's rating; the
\* excellent-response-time insight is emitted exactly when latency_avg is
\* at most 2 s, which is every Excellent latency and the Good ones up to 2 s.
C17_InsightsMatchRatingsButResponseTime ==
  AnalyzedAgents /\ DistinctIds =>
    \A i \in 1..Len(request.agents) :
      /\ Says(i, "excellent_precision") <=> AccuracyRating(i) = "Excellent"
      /\ Says(i, "good_precision") <=> AccuracyRating(i) = "Good"
      /\ Says(i, "precision_needs_improvement") <=> AccuracyRating(i) = "Poor"
      /\ Says(i, "high_latency") <=> LatencyRating(i) = "Poor"
      /\ Says(i, "excellent_response_time") <=>
           Get(MetricsOf(request.agents[i]), "latency_avg") <= 200
      /\ LatencyRating(i) = "Excellent" => Says(i, "excellent_response_time")
      /\ Says(i, "excellent_response_time") =>
           LatencyRating(i) \in {"Excellent", "Good"}

\* an agent of accuracy 90 and latency 2 s: rated Excellent and Good, with
\* the excellent-precision and the excellent-response-time insights
C17_Witness ==
  /\ AnalyzedAgents
  /\ Len(request.agents) = 1
  /\ Get(MetricsOf(request.agents[1]), "accuracy") = 9000
  /\ Get(MetricsOf(request.agents[1]), "latency_avg") = 200
  /\ AccuracyRating(1) = "Excellent"
  /\ LatencyRating(1) = "Good"
  /\ Says(1, "excellent_precision")
  /\ Says(1, "excellent_response_time")

\* C19: accuracy is rated Excellent from 90, Good in [80, 90), Fair in
\* [70, 80) and Poor below; latency is rated Excellent up to 1 s, Good in
\* (1, 3], Fair in (3, 5] and Poor above.
C19_RatingBuckets ==
  AnalyzedAgents /\ DistinctIds =>
    \A i \in 1..Len(request.agents) :
      LET accuracy == Get(MetricsOf(request.agents[i]), "accuracy")
          latency  == Get(MetricsOf(request.agents[i]), "latency_avg")
      IN  /\ AccuracyRating(i) \in {"Excellent", "Good", "Fair", "Poor"}
          /\ AccuracyRating(i) = "Excellent" <=> accuracy >= 9000
          /\ AccuracyRating(i) = "Good" <=> accuracy >= 8000 /\ accuracy < 9000
          /\ AccuracyRating(i) = "Fair" <=> accuracy >= 7000 /\ accuracy < 8000
          /\ AccuracyRating(i) = "Poor" <=> accuracy < 7000
          /\ LatencyRating(i) \in {"Excellent", "Good", "Fair", "Poor"}
          /\ LatencyRating(i) = "Excellent" <=> latency <= 100
          /\ LatencyRating(i) = "Good" <=> latency > 100 /\ latency <= 300
          /\ LatencyRating(i) = "Fair" <=> latency > 300 /\ latency <= 500
          /\ LatencyRating(i) = "Poor" <=> latency > 500

\* an agent of accuracy 95 and latency 1.5 s is rated Excellent and Good
C19_Witness ==
  /\ AnalyzedAgents
  /\ Len(request.agents) = 1
  /\ Get(MetricsOf(request.agents[1]), "accuracy") = 9500
  /\ Get(MetricsOf(request.agents[1]), "latency_avg") = 150
  /\ AccuracyRating(1) = "Excellent"
  /\ LatencyRating(1) = "Good"


\* the rule group of an insight: accuracy, latency, efficiency
RuleGroup(text) ==
  IF text \in {"excellent_precision", "good_precision", "precision_needs_improvement"}
  THEN 1
  ELSE IF text \in {"excellent_response_time", "high_latency"} THEN 2
  ELSE 3

\* the place in the input of the agent insight j is about
AgentOfInsight(j) ==
  CHOOSE i \in 1..Len(request.agents) : request.agents[i].id = Insights[j].agent

\* the condition of the rule of a text, for agent i
RuleMatches(i, text) ==
  LET metrics  == MetricsOf(request.agents[i])
      accuracy == Get(metrics, "accuracy")
      latency  == Get(metrics, "latency_avg")
      tokens   == Get(metrics, "tokens_avg")
      \* tokens per second against a limit
      above(limit) == latency > 0 /\ tokens > 0 /\ tokens > limit * latency
      below(limit) == latency <= 0 \/ tokens <= 0 \/ tokens < limit * latency
  IN  CASE text = "excellent_precision" -> accuracy >= 9000
        [] text = "good_precision" -> accuracy >= 8000 /\ accuracy < 9000
        [] text = "precision_needs_improvement" -> accuracy < 7000
        [] text = "excellent_response_time" -> latency <= 200
        [] text = "high_latency" -> latency > 500
        [] text = "very_efficient" -> above(500)
        [] text = "could_be_more_efficient" -> below(100)

InsightTexts ==
  {"excellent_precision", "good_precision", "precision_needs_improvement",
   "excellent_response_time", "high_latency",
   "very_efficient", "could_be_more_efficient"}

\* C18: the insights are about the agents in input order and, for one
\* agent, in the order accuracy, latency, efficiency, at most one of a
\* group; every rule that matches has its insight and no other insight is
\* there; an agent of accuracy 90 or more has the excellent-precision
\* insight and not the needs-improvement insight.
C18_InsightsOrderedAndComplete ==
  AnalyzedAgents /\ DistinctIds =>
    /\ \A j \in 1..Len(Insights) :
         /\ \E i \in 1..Len(request.agents) : request.agents[i].id = Insights[j].agent
         /\ Insights[j].text \in InsightTexts
    /\ \A j, k \in 1..Len(Insights) :
         j < k =>
           \/ AgentOfInsight(j) < AgentOfInsight(k)
           \/ /\ AgentOfInsight(j) = AgentOfInsight(k)
              /\ RuleGroup(Insights[j].text) < RuleGroup(Insights[k].text)
    /\ \A i \in 1..Len(request.agents) :
         /\ \A text \in InsightTexts : Says(i, text) <=> RuleMatches(i, text)
         /\ Get(MetricsOf(request.agents[i]), "accuracy") >= 9000 =>
              /\ Says(i, "excellent_precision")
              /\ ~Says(i, "precision_needs_improvement")

\* two agents: good precision and response time for the first, then
\* excellent precision, response time and efficiency for the second
C18_Witness ==
  /\ AnalyzedAgents
  /\ DistinctIds
  /\ Len(request.agents) = 2
  /\ Insights = <<[agent |-> request.agents[1].id, text |-> "good_precision"],
                  [agent |-> request.agents[1].id, text |-> "excellent_response_time"],
                  [agent |-> request.agents[2].id, text |-> "excellent_precision"],
                  [agent |-> request.agents[2].id, text |-> "excellent_response_time"],
                  [agent |-> request.agents[2].id, text |-> "very_efficient"]>>


(***************************************************************************)
(* The recommendations.                                                    *)
(***************************************************************************)
\* deduct_patterns was called on a list of agents that the anomaly
\* detection accepts
RecommendationsAsked ==
  /\ call.op = "deduct"
  /\ request.has_agents
  /\ Len(request.agents) < 3 \/ AllHaveMetrics

Recommendations == call.value.recommendations

\* some agent of the id of agent i has less (more) than a limit of metric k
SomeBelow(i, k, limit) ==
  \E j \in 1..Len(request.agents) :
    /\ request.agents[j].id = request.agents[i].id
    /\ Get(MetricsOf(request.agents[j]), k) < limit

SomeAbove(i, k, limit) ==
  \E j \in 1..Len(request.agents) :
    /\ request.agents[j].id = request.agents[i].id
    /\ Get(MetricsOf(request.agents[j]), k) > limit

Recommended(text, i) ==
  [text |-> text, agent |-> request.agents[i].id, other |-> ""]
    \in DOMAIN Recommendations

\* the best accuracy is more than 10 points above the worst
BestExceedsWorst ==
  \E i, j \in 1..Len(request.agents) :
    Get(MetricsOf(request.agents[i]), "accuracy")
      > Get(MetricsOf(request.agents[j]), "accuracy") + 1000

\* C20: for any list of agents the recommendations are returned, hold no
\* string twice, hold the three general recommendations, hold the
\* recommendation of a rule for an agent exactly when the agent is beyond
\* the threshold of the rule, and hold the comparative recommendation
\* exactly when there are two agents or more and the best accuracy is more
\* than 10 points above the worst.
C20_RecommendationsExact ==
  RecommendationsAsked =>
    /\ call.exc = "none"
    /\ \A x \in DOMAIN Recommendations : Recommendations[x] = 1
    /\ \A text \in {"additional_benchmarks", "document_configurations", "monitor_trends"} :
         [text |-> text, agent |-> "", other |-> ""] \in DOMAIN Recommendations
    /\ \A i \in 1..Len(request.agents) :
         /\ Recommended("fine_tuning", i) <=> SomeBelow(i, "accuracy", 7500)
         /\ Recommended("optimize_response_time", i) <=> SomeAbove(i, "latency_avg", 500)
         /\ Recommended("token_usage", i) <=> SomeAbove(i, "tokens_avg", 200000)
         /\ Recommended("improve_consistency", i) <=> SomeBelow(i, "consistency", 400)
    /\ (\E x \in DOMAIN Recommendations : x.text = "compare_configurations")
         <=> Len(request.agents) >= 2 /\ BestExceedsWorst

(***************************************************************************)
(* Properties of the report of a pipeline run (specification Spec).        *)
(***************************************************************************)
\* the merged report process_benchmark holds once the reduction stages
\* have returned
HasReport == processed_results # <<>>
Report == processed_results[1]

\* the accuracy the Evaluator gave the i-th agent of its output
EvaluatedAccuracy(i) == Get(evaluated.val[evaluated.keys[i]].metrics, "accuracy")

\* C29: in a pipeline run with at least 2 evaluated agents
\* summary.top_performer equals analysis.comparative_analysis.best_accuracy,
\* both being the first agent, in the order of the Evaluator's output, that
\* has the greatest accuracy; with no evaluated agent top_performer is
\* "none".
C29_TopPerformerIsBestAccuracy ==
  HasReport =>
    /\ Len(evaluated.keys) = 0 => Report.summary.top_performer = "none"
    /\ Len(evaluated.keys) >= 2 =>
         /\ Report.summary.top_performer
              = Report.analysis.comparative_analysis.best_accuracy
         /\ \E i \in 1..Len(evaluated.keys) :
              /\ Report.summary.top_performer = evaluated.keys[i]
              /\ \A j \in 1..Len(evaluated.keys) :
                   EvaluatedAccuracy(j) <= EvaluatedAccuracy(i)
              /\ \A j \in 1..(i - 1) : EvaluatedAccuracy(j) < EvaluatedAccuracy(i)

\* two agents were evaluated with the same accuracy, half of their answers
\* right, and the report names the first of them
C29_Witness ==
  /\ HasReport
  /\ Len(evaluated.keys) = 2
  /\ EvaluatedAccuracy(1) = 5000
  /\ EvaluatedAccuracy(2) = 5000
  /\ Report.summary.top_performer = evaluated.keys[1]
  /\ Report.analysis.comparative_analysis.best_accuracy = evaluated.keys[1]

\* every query put to agent a failed (and at least one was put to it)
AllFailed(a) ==
  /\ ResponsesOf(results, a) # <<>>
  /\ \A i \in 1..Len(ResponsesOf(results, a)) : QueryFailed(ResponsesOf(results, a)[i])

\* the metric k the Evaluator reported for agent a
EvaluatedMetric(a, k) == Get(evaluated.val[a].metrics, k)

\* C26: in a pipeline run with at least 2 agents, an agent whose every
\* response is an error gets latency_avg = 0 and tokens_avg = 0 from the
\* Evaluator and is rated latency Excellent; whenever every other agent has
\* a positive average latency and positive average tokens, it is named both
\* best_latency and most_efficient.
C26_AllErrorAgentNamedBest ==
  HasReport /\ Len(evaluated.keys) >= 2 =>
    \A a \in DOMAIN evaluated.val :
      AllFailed(a) =>
        /\ EvaluatedMetric(a, "latency_avg") = 0
        /\ EvaluatedMetric(a, "tokens_avg") = 0
        /\ Report.analysis.performance_metrics.val[a].latency_analysis.rating
             = "Excellent"
        /\ (\A b \in DOMAIN evaluated.val \ {a} :
              EvaluatedMetric(b, "latency_avg") > 0 /\ EvaluatedMetric(b, "tokens_avg") > 0)
             => /\ Report.analysis.comparative_analysis.best_latency = a
                /\ Report.analysis.comparative_analysis.most_efficient = a

\* the second of two agents raised on both questions, the first answered
\* both, and the second is named best_latency and most_efficient
C26_Witness ==
  /\ HasReport
  /\ Len(evaluated.keys) = 2
  /\ Len(results) = 2
  /\ AllFailed(evaluated.keys[2])
  /\ results[1].agent_responses[2].error
  /\ EvaluatedMetric(evaluated.keys[1], "latency_avg") > 0
  /\ EvaluatedMetric(evaluated.keys[1], "tokens_avg") > 0
  /\ EvaluatedMetric(evaluated.keys[1], "accuracy") = 10000
  /\ Report.analysis.comparative_analysis.best_latency = evaluated.keys[2]
  /\ Report.analysis.comparative_analysis.most_efficient = evaluated.keys[2]

\* the behavioral analysis of an agent that has the accuracy acc (in
\* hundredths) and the category scores the pipeline derives from it
PipelineBehavior(acc) ==
  BehaviorOf([id |-> "a", has_metrics |-> TRUE,
              metrics |-> [accuracy |-> acc],
              category_scores |-> CategoryScores([accuracy |-> acc])])

Steady(behavior) ==
  /\ behavior.score_consistency = "High"
  /\ behavior.category_strengths = <<>>
  /\ behavior.category_weaknesses = <<>>

\* C30: in a pipeline run the category scores are 0.9 and 0.85 times the
\* accuracy, so the behavioral analysis reports, for every evaluated agent,
\* score_consistency "High" and no strength and no weakness; the same holds
\* of every whole accuracy from 0 to 100.
C30_BehaviorAlwaysSteady ==
  /\ HasReport =>
       /\ Report.deductions.behavioral_insights.keys = evaluated.keys
       /\ \A i \in 1..Len(Report.agents) :
            /\ Get(Report.agents[i].category_scores.val, "mathematics")
                 = 90 * EvaluatedAccuracy(i)
            /\ Get(Report.agents[i].category_scores.val, "logical_reasoning")
                 = 85 * EvaluatedAccuracy(i)
       /\ \A a \in DOMAIN evaluated.val :
            Steady(Report.deductions.behavioral_insights.val[a])
  /\ wpc = "load" => \A p \in 0..100 : Steady(PipelineBehavior(100 * p))

\* an agent with every answer right and one with every answer wrong were
\* evaluated, and both are reported as steady
C30_Witness ==
  /\ HasReport
  /\ Len(evaluated.keys) = 2
  /\ EvaluatedAccuracy(1) = 10000
  /\ EvaluatedAccuracy(2) = 0
  /\ Report.deductions.behavioral_insights.val[evaluated.keys[1]].score_consistency = "High"
  /\ Report.agents[1].category_scores.val["mathematics"] = 900000

\* the metrics the Evaluator returned for the i-th agent of its output
EvaluatedMetrics(i) == evaluated.val[evaluated.keys[i]].metrics

\* the report, the analysis and the deductions are all about the metrics
\* the Evaluator returned, and what was retained or persisted is the report
SameMetricsEverywhere ==
  HasReport =>
    /\ evaluated = evaluate_results(results)
    /\ Ids(Report.agents) = evaluated.keys
    /\ \A i \in 1..Len(Report.agents) :
         /\ Report.agents[i].metrics = EvaluatedMetrics(i)
         /\ Report.analysis.performance_metrics.val[evaluated.keys[i]]
              = PerformanceOf([id |-> evaluated.keys[i], has_metrics |-> TRUE,
                               metrics |-> EvaluatedMetrics(i)])
         /\ Report.deductions.behavioral_insights.val[evaluated.keys[i]]
              .overall_performance_profile = _profile_performance(EvaluatedMetrics(i))
    /\ Report.analysis.total_agents = Len(evaluated.keys)
    /\ metrics_history # <<>>
    /\ metrics_history[Len(metrics_history)] = Report.analysis
    /\ status = "completed" => stored = processed_results

\* a step of the run changes neither the input of a stage that has run nor
\* an output already returned
OutputsKept ==
  /\ wpc = "questions" /\ wpc' # "agents" => results' = results
  /\ wpc \in {"complete", "except", "returned", "raised"} =>
       /\ results' = results
       /\ evaluated' = evaluated
       /\ processed_results' = processed_results
       /\ metrics_history' = metrics_history
  /\ Len(metrics_history) <= Len(metrics_history')
  /\ SubSeq(metrics_history', 1, Len(metrics_history)) = metrics_history

FewDeducted == Deducted /\ AllHaveMetrics /\ Len(request.agents) \in 3..5

Patterns == call.value.performance_patterns

\* the places (cluster, position) at which the clusters hold the id x
PlacesOf(x) ==
  {c \in DOMAIN Patterns.performance_clusters.val :
     \E j \in 1..Len(Patterns.performance_clusters.val[c]) :
       Patterns.performance_clusters.val[c][j] = x}

Pop(d, k, default) == IF k \in DOMAIN d THEN d[k] ELSE default
Without(d, k) == [x \in DOMAIN d \ {k} |-> d[x]]

\* d[k] = v
With(d, k, v) == [x \in DOMAIN d \cup {k} |-> IF x = k THEN v ELSE d[x]]

\* INSERT INTO benchmarks (run_id, status, ..., benchmark_type, ...)
start_benchmark(table, run_id, benchmark) ==
  With(table, run_id,
       [run_id |-> run_id, status |-> "queued", benchmark_type |-> benchmark,
        progress |-> None, started_at |-> None, completed_at |-> None])

\* the row SELECTed, its benchmark_type renamed benchmark, with results_url
\* when it is completed; None when there is no row or the database failed
get_run_status(table, run_id, database_ok) ==
  IF ~database_ok \/ run_id \notin DOMAIN table
  THEN EmptyMap
  ELSE IF table[run_id].status = "completed"
  THEN With(With(Without(table[run_id], "benchmark_type"),
                 "benchmark", Pop(table[run_id], "benchmark_type", "")),
            "results_url", run_id)
  ELSE With(Without(table[run_id], "benchmark_type"),
            "benchmark", Pop(table[run_id], "benchmark_type", ""))

\* start_processing setting the status to "completed"
start_processing_Completed(table, run_id) ==
  IF run_id \in DOMAIN table
  THEN [table EXCEPT ![run_id] =
          [@ EXCEPT !.status = "completed", !.started_at = 0, !.progress = 0]]
  ELSE table

\* UPDATE benchmarks SET status = 'processing', started_at = now,
\* progress = 0.0 WHERE run_id = ...
start_processing(table, run_id) ==
  IF run_id \in DOMAIN table
  THEN [table EXCEPT ![run_id] =
          [@ EXCEPT !.status = "processing", !.started_at = 0, !.progress = 0]]
  ELSE table

\* update_progress storing the progress as given
update_progress_Unclamped(table, run_id, progress) ==
  IF run_id \in DOMAIN table
  THEN [table EXCEPT ![run_id] = [@ EXCEPT !.progress = progress]]
  ELSE table

\* UPDATE benchmarks SET progress = min(1.0, max(0.0, progress))
update_progress(table, run_id, progress) ==
  IF run_id \in DOMAIN table
  THEN [table EXCEPT ![run_id] =
          [@ EXCEPT !.progress = Min2(100, IF progress > 0 THEN progress ELSE 0)]]
  ELSE table

\* UPDATE benchmarks SET status = 'completed', completed_at = now,
\* progress = 1.0; the rows inserted for the results are left out
complete_benchmark(table, run_id) ==
  IF run_id \in DOMAIN table
  THEN [table EXCEPT ![run_id] =
          [@ EXCEPT !.status = "completed", !.completed_at = 0, !.progress = 100]]
  ELSE table

\* run_benchmark reading the status after the first step of the task it
\* created
run_benchmark_AfterTask(table, run_id, benchmark, database_ok) ==
  LET run_status == get_run_status(start_processing(table, run_id), run_id, database_ok)
  IN  IF run_status # EmptyMap
      THEN With(With(Without(run_status, "benchmark_type"),
                     "benchmark", Pop(run_status, "benchmark_type", benchmark)),
                "results_url", run_id)
      ELSE run_status

\* POST /benchmark/run from asyncio.create_task on: what is returned.  The
\* task created does not run before the handler returns or awaits.
run_benchmark(table, run_id, benchmark, database_ok) ==
  LET run_status == get_run_status(table, run_id, database_ok)
  IN  IF run_status # EmptyMap
      THEN With(With(Without(run_status, "benchmark_type"),
                     "benchmark", Pop(run_status, "benchmark_type", benchmark)),
                "results_url", run_id)
      ELSE run_status

\* GET /benchmark/{run_id}: [code, body]
get_benchmark_status(table, run_id, database_ok) ==
  LET run_status == get_run_status(table, run_id, database_ok)
  IN  IF run_status = EmptyMap
      THEN [code |-> 404, body |-> [detail |-> "Benchmark not found"]]
      ELSE IF run_status.status = "completed"
      THEN [code |-> 200,
            body |-> With(With(Without(run_status, "benchmark_type"),
                               "benchmark", Pop(run_status, "benchmark_type", "")),
                          "results_url", run_id)]
      ELSE [code |-> 200,
            body |-> With(Without(run_status, "benchmark_type"),
                          "benchmark", Pop(run_status, "benchmark_type", ""))]

\* GET /benchmark/results/{run_id}: [code, body]
get_benchmark_results(table, store, run_id, database_ok) ==
  IF get_run_status(table, run_id, database_ok) = EmptyMap
  THEN [code |-> 404, body |-> [detail |-> "Benchmark not found"]]
  ELSE IF run_id \notin DOMAIN store
  THEN [code |-> 404, body |-> [detail |-> "Results not available yet"]]
  ELSE [code |-> 200, body |-> store[run_id]]

(***************************************************************************)
(* The API serving requests: at most MaxRuns runs are submitted, and any   *)
(* route or method of the service can be called at any time.  An await is  *)
(* a point where the event loop may run something else.                    *)
(***************************************************************************)
MaxRuns == 2

RunIds == 1..MaxRuns

\* BenchmarkRequest: the agents and the benchmark
Requests ==
  {[benchmark |-> "mmlu", agents |-> <<"gpt-4">>], [benchmark |-> "gsm8k", agents |-> <<>>]}

\* the progress update_progress is called with, in hundredths
ProgressValues == {-50, 30, 150}

ApiInit ==
  /\ ApiIdle
  /\ results = <<>>
  /\ evaluated = EmptyDict
  /\ EvalIdle
  /\ WorkerIdle
  /\ EngineIdle

\* run_benchmark up to its await: start_benchmark inserts the row of a new
\* run_id, or raises
RunBenchmarkBegin ==
  /\ \E run_id \in RunIds, req \in Requests, database_ok \in BOOLEAN :
       /\ run_id \notin DOMAIN benchmarks
       /\ \A other \in RunIds : other < run_id => other \in DOMAIN benchmarks
       /\ IF database_ok
          THEN /\ benchmarks' = start_benchmark(benchmarks, run_id, req.benchmark)
               /\ pending' = With(pending, run_id, req)
               /\ reply' = reply
          ELSE /\ reply' = [op |-> "run", run_id |-> run_id, arg |-> None,
                            code |-> 500, body |-> EmptyMap]
               /\ UNCHANGED <<benchmarks, pending>>
  /\ UNCHANGED <<benchmark_results, tasks>>
  /\ UNCHANGED <<evalVars, workerVars, engineVars>>

\* run_benchmark from its await on: the task is created and the status
\* read and returned
RunBenchmarkEnd ==
  /\ \E run_id \in DOMAIN pending, database_ok \in BOOLEAN :
       /\ tasks' = With(tasks, run_id, [pc |-> "start_processing",
                                         request |-> pending[run_id]])
       /\ pending' = Without(pending, run_id)
       /\ reply' = [op |-> "run", run_id |-> run_id, arg |-> None, code |-> 200,
                    body |-> run_benchmark(benchmarks, run_id,
                                           pending[run_id].benchmark, database_ok)]
  /\ UNCHANGED <<benchmarks, benchmark_results>>
  /\ UNCHANGED <<evalVars, workerVars, engineVars>>

\* simulate_benchmark_processing: await benchmark_service.start_processing
TaskStartProcessing ==
  /\ \E run_id \in DOMAIN tasks, database_ok \in BOOLEAN :
       /\ tasks[run_id].pc = "start_processing"
       /\ IF database_ok
          THEN /\ benchmarks' = start_processing(benchmarks, run_id)
               /\ tasks' = [tasks EXCEPT ![run_id].pc = "update_progress"]
          ELSE /\ benchmarks' = benchmarks
               /\ tasks' = [tasks EXCEPT ![run_id].pc = "raised"]
  /\ UNCHANGED <<benchmark_results, pending, reply>>
  /\ UNCHANGED <<evalVars, workerVars, engineVars>>

\* await benchmark_service.update_progress(run_id, 0.5)
TaskUpdateProgress ==
  /\ \E run_id \in DOMAIN tasks, database_ok \in BOOLEAN :
       /\ tasks[run_id].pc = "update_progress"
       /\ IF database_ok
          THEN /\ benchmarks' = update_progress(benchmarks, run_id, 50)
               /\ tasks' = [tasks EXCEPT ![run_id].pc = "store"]
          ELSE /\ benchmarks' = benchmarks
               /\ tasks' = [tasks EXCEPT ![run_id].pc = "raised"]
  /\ UNCHANGED <<benchmark_results, pending, reply>>
  /\ UNCHANGED <<evalVars, workerVars, engineVars>>

\* benchmark_results[run_id] = {...}
TaskStoreResults ==
  /\ \E run_id \in DOMAIN tasks :
       /\ tasks[run_id].pc = "store"
       /\ benchmark_results' =
            With(benchmark_results, run_id,
                 [benchmark |-> tasks[run_id].request.benchmark,
                  top_performer |-> IF tasks[run_id].request.agents # <<>>
                                    THEN tasks[run_id].request.agents[1]
                                    ELSE "none"])
       /\ tasks' = [tasks EXCEPT ![run_id].pc = "complete"]
  /\ UNCHANGED <<benchmarks, pending, reply>>
  /\ UNCHANGED <<evalVars, workerVars, engineVars>>

\* await benchmark_service.complete_benchmark(run_id,
\*                                            benchmark_results[run_id])
TaskComplete ==
  /\ \E run_id \in DOMAIN tasks, database_ok \in BOOLEAN :
       /\ tasks[run_id].pc = "complete"
       /\ IF database_ok /\ run_id \in DOMAIN benchmark_results
          THEN /\ benchmarks' = complete_benchmark(benchmarks, run_id)
               /\ tasks' = [tasks EXCEPT ![run_id].pc = "done"]
          ELSE /\ benchmarks' = benchmarks
               /\ tasks' = [tasks EXCEPT ![run_id].pc = "raised"]
  /\ UNCHANGED <<benchmark_results, pending, reply>>
  /\ UNCHANGED <<evalVars, workerVars, engineVars>>

\* GET /benchmark/{run_id}
GetBenchmarkStatus ==
  /\ \E run_id \in RunIds, database_ok \in BOOLEAN :
       \E r \in {get_benchmark_status(benchmarks, run_id, database_ok)} :
         reply' = [op |-> "status", run_id |-> run_id, arg |-> None,
                   code |-> r.code, body |-> r.body]
  /\ UNCHANGED <<benchmarks, benchmark_results, tasks, pending>>
  /\ UNCHANGED <<evalVars, workerVars, engineVars>>

\* GET /benchmark/results/{run_id}
GetBenchmarkResults ==
  /\ \E run_id \in RunIds, database_ok \in BOOLEAN :
       \E r \in {get_benchmark_results(benchmarks, benchmark_results, run_id,
                                       database_ok)} :
         reply' = [op |-> "results", run_id |-> run_id, arg |-> None,
                   code |-> r.code, body |-> r.body]
  /\ UNCHANGED <<benchmarks, benchmark_results, tasks, pending>>
  /\ UNCHANGED <<evalVars, workerVars, engineVars>>

\* benchmark_service.update_progress(run_id, progress), called directly
UpdateProgress ==
  /\ \E run_id \in RunIds, progress \in ProgressValues, database_ok \in BOOLEAN :
       /\ benchmarks' = IF database_ok
                        THEN update_progress(benchmarks, run_id, progress)
                        ELSE benchmarks
       /\ reply' = [op |-> "update_progress", run_id |-> run_id, arg |-> progress,
                    code |-> IF database_ok THEN 0 ELSE 500, body |-> EmptyMap]
  /\ UNCHANGED <<benchmark_results, tasks, pending>>
  /\ UNCHANGED <<evalVars, workerVars, engineVars>>

\* benchmark_service.get_run_status(run_id), called directly
GetRunStatus ==
  /\ \E run_id \in RunIds, database_ok \in BOOLEAN :
       reply' = [op |-> "get_run_status", run_id |-> run_id, arg |-> None,
                 code |-> 0, body |-> get_run_status(benchmarks, run_id, database_ok)]
  /\ UNCHANGED <<benchmarks, benchmark_results, tasks, pending>>
  /\ UNCHANGED <<evalVars, workerVars, engineVars>>

ApiNext ==
  \/ RunBenchmarkBegin
  \/ RunBenchmarkEnd
  \/ TaskStartProcessing
  \/ TaskUpdateProgress
  \/ TaskStoreResults
  \/ TaskComplete
  \/ GetBenchmarkStatus
  \/ GetBenchmarkResults
  \/ UpdateProgress
  \/ GetRunStatus

SpecApi == ApiInit /\ [][ApiNext]_vars

(***************************************************************************)
(* Properties of the service and of the routes (specification SpecApi).    *)
(***************************************************************************)
\* the step is a call of update_progress that reached the database: the
\* only step that changes a row and leaves the tasks and the handlers alone
ProgressUpdated ==
  /\ benchmarks' # benchmarks
  /\ tasks' = tasks
  /\ pending' = pending

\* the step answers a call of op
Answered(op) == reply' # reply /\ reply'.op = op

Clamped(progress) == IF progress < 0 THEN 0 ELSE IF progress > 100 THEN 100 ELSE progress

\* what a step of the service does to the rows and what it answers
LifecycleStep ==
  /\ \A id \in DOMAIN benchmarks' \ DOMAIN benchmarks :
       /\ benchmarks'[id].status = "queued"
       /\ benchmarks'[id].started_at = None
       /\ benchmarks'[id].completed_at = None
  /\ \A id \in DOMAIN tasks :
       /\ tasks[id].pc = "start_processing" /\ tasks'[id].pc = "update_progress" =>
            /\ benchmarks'[id].status = "processing"
            /\ benchmarks'[id].started_at # None
       /\ tasks[id].pc = "update_progress" /\ tasks'[id].pc = "store" =>
            /\ benchmarks'[id].status = benchmarks[id].status
            /\ benchmarks'[id].progress = 50
       /\ tasks[id].pc = "complete" /\ tasks'[id].pc = "done" =>
            /\ benchmarks'[id].status = "completed"
            /\ benchmarks'[id].progress = 100
            /\ benchmarks'[id].completed_at # None
  /\ ProgressUpdated =>
       /\ reply'.op = "update_progress"
       /\ benchmarks' = [benchmarks EXCEPT ![reply'.run_id].progress = Clamped(reply'.arg)]
       /\ benchmarks'[reply'.run_id].progress \in 0..100
  /\ Answered("get_run_status") =>
       /\ reply'.run_id \notin DOMAIN benchmarks => reply'.body = EmptyMap
       /\ reply'.body # EmptyMap =>
            /\ reply'.body.status = benchmarks[reply'.run_id].status
            /\ "results_url" \in DOMAIN reply'.body
                 <=> benchmarks[reply'.run_id].status = "completed"

\* C23: the status is queued after start_benchmark, processing with
\* started_at set after start_processing, completed with progress 1.0 and
\* completed_at set after complete_benchmark; update_progress stores the
\* progress clamped to [0, 1] and changes nothing else of the row;
\* get_run_status has results_url exactly when the status is completed and
\* returns None for a run id that has no row.
C23_ServiceLifecycle == [][LifecycleStep]_vars

\* run 1 was started, processed and completed, and get_run_status answered
\* for it with a results_url
C23_Witness ==
  /\ 1 \in DOMAIN benchmarks
  /\ benchmarks[1].status = "completed"
  /\ benchmarks[1].progress = 100
  /\ benchmarks[1].started_at # None
  /\ benchmarks[1].completed_at # None
  /\ reply.op = "get_run_status"
  /\ reply.run_id = 1
  /\ "results_url" \in DOMAIN reply.body

\* the answer is a status returned by POST /benchmark/run
RunAnswered == reply.op = "run" /\ reply.code = 200 /\ reply.body # EmptyMap

C27_StatusCarriesBenchmark ==
  reply.op \in {"status", "run", "get_run_status"} /\ reply.body # EmptyMap
    /\ reply.code \in {0, 200} =>
      reply.body.benchmark = benchmarks[reply.run_id].benchmark_type

\* C28: a run whose status is completed has its results in the store of
\* the routes, GET /benchmark/results/{run_id} answers "Results not
\* available yet" only for a run that is not completed, and answers with
\* the stored results once they are there.
C28_CompletedHasResults ==
  /\ [](\A id \in DOMAIN benchmarks :
          benchmarks[id].status = "completed" => id \in DOMAIN benchmark_results)
  /\ [][Answered("results") =>
          /\ reply'.code = 404 /\ reply'.body.detail = "Results not available yet" =>
               /\ reply'.run_id \in DOMAIN benchmarks
               /\ benchmarks[reply'.run_id].status # "completed"
          /\ reply'.code = 200 => reply'.body = benchmark_results[reply'.run_id]]_vars

\* the results of run 1, completed, were returned while run 2 has its
\* results stored and is not yet completed
C28_Witness ==
  /\ reply.op = "results"
  /\ reply.code = 200
  /\ reply.run_id = 1
  /\ benchmarks[1].status = "completed"
  /\ reply.body.benchmark = benchmarks[1].benchmark_type
  /\ 2 \in DOMAIN benchmark_results
  /\ benchmarks[2].status = "processing"

============================================================================
